---------------------------- MODULE Spec2Model ----------------------------
(***************************************************************************)
(* A model of the calculator's history engine: the Calculation value       *)
(* object (app/calculation.py), the input validator                        *)
(* (app/input_validators.py), the memento (app/calculator_memento.py),     *)
(* the observers (app/history.py) and the Calculator itself                *)
(* (app/calculator.py).                                                    *)
(*                                                                         *)
(* Decimal values are records [coef, exp] standing for coef * 10^exp, as   *)
(* Python's decimal module keeps them (signed coefficient, exponent).      *)
(* Text (raw operands, the string fields of a persisted record) is a       *)
(* sequence of one-character strings.                                      *)
(***************************************************************************)
EXTENDS Integers, Sequences, FiniteSets, TLC

(***************************************************************************)
(* Bounds of the model.                                                    *)
(***************************************************************************)
MaxHistorySize == 2     \* config.max_history_size ranges over 1..MaxHistorySize
MaxStack == 2           \* perform is disabled once undo_stack holds MaxStack mementos
MaxObservers == 1       \* add_observer is disabled at MaxObservers observers
MaxRegistered == 2      \* the same, where the order of observers matters
MaxInputValue == 5      \* config.max_input_value
MaxDivDigits == 3       \* decimal places searched for an exact quotient

(***************************************************************************)
(* Small integer helpers.                                                  *)
(***************************************************************************)
Abs(n) == IF n < 0 THEN -n ELSE n

Min(a, b) == IF a <= b THEN a ELSE b

Sign(n) == IF n < 0 THEN -1 ELSE IF n > 0 THEN 1 ELSE 0

RECURSIVE Pow10(_)
Pow10(n) == IF n <= 0 THEN 1 ELSE 10 * Pow10(n - 1)

RECURSIVE IntPow(_, _)
IntPow(b, e) == IF e <= 0 THEN 1 ELSE b * IntPow(b, e - 1)

\* Quotient truncated toward zero (TLA+'s \div floors).
TruncDiv(a, b) == Sign(a) * Sign(b) * (Abs(a) \div Abs(b))

\* Remainder with the sign of the dividend.
TruncRem(a, b) == Sign(a) * (Abs(a) % Abs(b))

(***************************************************************************)
(* decimal.Decimal: value coef * 10^exp.                                   *)
(***************************************************************************)
Dec(c, e) == [coef |-> c, exp |-> e]

DecInt(n) == Dec(n, 0)

\* The coefficient of d rescaled to exponent e (e <= d.exp).
Scaled(d, e) == d.coef * Pow10(d.exp - e)

DecEq(a, b) ==
    LET e == Min(a.exp, b.exp) IN Scaled(a, e) = Scaled(b, e)

DecLt(a, b) ==
    LET e == Min(a.exp, b.exp) IN Scaled(a, e) < Scaled(b, e)

DecIsZero(a) == a.coef = 0

DecAbs(a) == Dec(Abs(a.coef), a.exp)

DecAdd(a, b) ==
    LET e == Min(a.exp, b.exp) IN Dec(Scaled(a, e) + Scaled(b, e), e)

DecSub(a, b) ==
    LET e == Min(a.exp, b.exp) IN Dec(Scaled(a, e) - Scaled(b, e), e)

DecMul(a, b) == Dec(a.coef * b.coef, a.exp + b.exp)

\* Decimal.__truediv__ for b # 0 when the quotient is exact within
\* MaxDivDigits places: the exponent is the ideal one (a.exp - b.exp) when
\* the coefficient is then an integer, else the largest smaller exponent
\* that makes it one.  A zero dividend keeps the ideal exponent.
DecDivExact(a, b) ==
    LET ideal == a.exp - b.exp
        Fits(k) == (a.coef * Pow10(k)) % Abs(b.coef) = 0
    IN  \E k \in 0..MaxDivDigits : Fits(k)

DecDiv(a, b) ==
    LET ideal == a.exp - b.exp
        Fits(k) == (a.coef * Pow10(k)) % Abs(b.coef) = 0
        k == CHOOSE j \in 0..MaxDivDigits :
                 Fits(j) /\ \A i \in 0..(j - 1) : ~Fits(i)
    IN  Dec(TruncDiv(a.coef * Pow10(k), b.coef), ideal - k)

\* a % b read as the remainder of the floored quotient, which takes the
\* sign of the divisor.
DecMod_Floor(a, b) ==
    LET e == Min(a.exp, b.exp)
        n == Scaled(a, e)
        d == Scaled(b, e)
    IN  Dec(IF d > 0 THEN n % d ELSE -((-n) % (-d)), e)

\* Decimal.__mod__ for b # 0: remainder with the sign of the dividend.
DecMod(a, b) ==
    LET e == Min(a.exp, b.exp) IN Dec(TruncRem(Scaled(a, e), Scaled(b, e)), e)

\* int(a // b) read as the floor of the quotient.
DecIntDiv_Floor(a, b) ==
    LET e == Min(a.exp, b.exp)
        n == Scaled(a, e)
        d == Scaled(b, e)
    IN  IF d > 0 THEN n \div d ELSE (-n) \div (-d)

\* int(a // b) for b # 0: the quotient truncated toward zero.
DecIntDiv(a, b) ==
    LET e == Min(a.exp, b.exp) IN TruncDiv(Scaled(a, e), Scaled(b, e))

\* Decimal.normalize(): trailing zeros of the coefficient move into the
\* exponent; zero becomes Decimal('0').
RECURSIVE DecNormalize(_)
DecNormalize(d) ==
    IF d.coef = 0 THEN Dec(0, 0)
    ELSE IF d.coef % 10 = 0 THEN DecNormalize(Dec(d.coef \div 10, d.exp + 1))
    ELSE d

(***************************************************************************)
(* Text: sequences of one-character strings.                               *)
(***************************************************************************)
DigitChars == <<"0", "1", "2", "3", "4", "5", "6", "7", "8", "9">>

DigitSet == {"0", "1", "2", "3", "4", "5", "6", "7", "8", "9"}

IsDigit(c) == c \in DigitSet

DigitValue(c) ==
    CASE c = "0" -> 0 [] c = "1" -> 1 [] c = "2" -> 2 [] c = "3" -> 3
      [] c = "4" -> 4 [] c = "5" -> 5 [] c = "6" -> 6 [] c = "7" -> 7
      [] c = "8" -> 8 [] c = "9" -> 9

AllDigits(s) == \A i \in 1..Len(s) : IsDigit(s[i])

\* The number a string of digits denotes.
RECURSIVE DigitsToNat(_)
DigitsToNat(s) ==
    IF s = <<>> THEN 0
    ELSE 10 * DigitsToNat(SubSeq(s, 1, Len(s) - 1)) + DigitValue(s[Len(s)])

\* The digits of a natural number, "0" for zero.
RECURSIVE NatToDigits(_)
NatToDigits(n) ==
    IF n < 10 THEN <<DigitChars[n + 1]>>
    ELSE NatToDigits(n \div 10) \o <<DigitChars[(n % 10) + 1]>>

RECURSIVE Zeros(_)
Zeros(n) == IF n <= 0 THEN <<>> ELSE <<"0">> \o Zeros(n - 1)

\* Index of the first c in s, 0 when there is none.
RECURSIVE IndexFrom(_, _, _)
IndexFrom(s, c, i) ==
    IF i > Len(s) THEN 0 ELSE IF s[i] = c THEN i ELSE IndexFrom(s, c, i + 1)

IndexOf(s, c) == IndexFrom(s, c, 1)

\* The position of the exponent marker of a Decimal literal, E or e, at or
\* after position i; 0 when there is none.
RECURSIVE ExponentAt(_, _)
ExponentAt(s, i) ==
    IF i > Len(s) THEN 0
    ELSE IF s[i] \in {"E", "e"} THEN i ELSE ExponentAt(s, i + 1)

\* str.strip(): leading and trailing blanks removed.
RECURSIVE Strip(_)
Strip(s) ==
    IF s = <<>> THEN s
    ELSE IF s[1] = " " THEN Strip(Tail(s))
    ELSE IF s[Len(s)] = " " THEN Strip(SubSeq(s, 1, Len(s) - 1))
    ELSE s

NoDecimal == [ok |-> FALSE, value |-> Dec(0, 0)]

\* An optionally signed integer, as the exponent of a Decimal literal.
ParseSignedInt(s) ==
    LET signed == s # <<>> /\ s[1] \in {"+", "-"}
        body   == IF signed THEN Tail(s) ELSE s
    IN  IF body = <<>> \/ ~AllDigits(body) THEN [ok |-> FALSE, value |-> 0]
        ELSE [ok |-> TRUE,
              value |-> IF signed /\ s[1] = "-" THEN -DigitsToNat(body)
                        ELSE DigitsToNat(body)]

\* Decimal(text): [sign] digits [. digits] [E|e [sign] digits]; anything else
\* raises InvalidOperation (ok = FALSE).
ParseDecimal(s) ==
    LET signed   == s # <<>> /\ s[1] \in {"+", "-"}
        negative == signed /\ s[1] = "-"
        unsigned == IF signed THEN Tail(s) ELSE s
        ePos     == ExponentAt(unsigned, 1)
        mantissa == IF ePos = 0 THEN unsigned ELSE SubSeq(unsigned, 1, ePos - 1)
        expText  == IF ePos = 0 THEN <<"0">>
                    ELSE SubSeq(unsigned, ePos + 1, Len(unsigned))
        dotPos   == IndexOf(mantissa, ".")
        intPart  == IF dotPos = 0 THEN mantissa ELSE SubSeq(mantissa, 1, dotPos - 1)
        fracPart == IF dotPos = 0 THEN <<>>
                    ELSE SubSeq(mantissa, dotPos + 1, Len(mantissa))
        expo     == ParseSignedInt(expText)
        digits   == intPart \o fracPart
        coef     == DigitsToNat(digits)
    IN  IF digits = <<>> \/ ~AllDigits(digits) \/ ~expo.ok THEN NoDecimal
        ELSE [ok |-> TRUE,
              value |-> Dec(IF negative THEN -coef ELSE coef,
                            expo.value - Len(fracPart))]

\* str(Decimal) that writes the digits of the coefficient and drops the
\* exponent.
DecToStr_Digits(d) ==
    (IF d.coef < 0 THEN <<"-">> ELSE <<>>) \o NatToDigits(Abs(d.coef))

\* str(Decimal): plain notation when exp <= 0 and the number is not too
\* small, scientific notation otherwise (Decimal.__str__).
DecToStr(d) ==
    LET sign       == IF d.coef < 0 THEN <<"-">> ELSE <<>>
        digits     == NatToDigits(Abs(d.coef))
        leftdigits == d.exp + Len(digits)
        dotplace   == IF d.exp <= 0 /\ leftdigits > -6 THEN leftdigits ELSE 1
        intpart    == IF dotplace <= 0 THEN <<"0">>
                      ELSE IF dotplace >= Len(digits)
                           THEN digits \o Zeros(dotplace - Len(digits))
                      ELSE SubSeq(digits, 1, dotplace)
        fracpart   == IF dotplace <= 0 THEN <<".">> \o Zeros(-dotplace) \o digits
                      ELSE IF dotplace >= Len(digits) THEN <<>>
                      ELSE <<".">> \o SubSeq(digits, dotplace + 1, Len(digits))
        e          == leftdigits - dotplace
        exppart    == IF e = 0 THEN <<>>
                      ELSE <<"E">> \o (IF e < 0 THEN <<"-">> ELSE <<"+">>)
                           \o NatToDigits(Abs(e))
    IN  sign \o intpart \o fracpart \o exppart

\* datetime.isoformat() / datetime.fromisoformat(): an instant is a tick of
\* the clock, written as its digits.
IsoFormat(t) == NatToDigits(t)

FromIsoFormat(s) ==
    IF s = <<>> \/ ~AllDigits(s) THEN [ok |-> FALSE, value |-> 0]
    ELSE [ok |-> TRUE, value |-> DigitsToNat(s)]

(***************************************************************************)
(* app/exceptions.py: an outcome is a value or a raised exception.         *)
(***************************************************************************)
Returned(v) == [ok |-> TRUE, value |-> v, kind |-> "None", message |-> "None"]

Raised(k, m) == [ok |-> FALSE, value |-> Dec(0, 0), kind |-> k, message |-> m]

(***************************************************************************)
(* app/input_validators.py                                                 *)
(***************************************************************************)
\* Raw operands as the caller types them: a number, a number with a blank
\* before it, and text that is no number.
RawInputs == {<<"0">>, <<" ", "2">>, <<"x">>}

\* Raw operands at the configured maximum, above it, unparsable, and zero.
AtMaximum == NatToDigits(MaxInputValue)

AboveMaximum == <<"-">> \o NatToDigits(MaxInputValue + 1)

BoundaryInputs == {AtMaximum, AboveMaximum, <<"x">>, <<"0">>}

\* Decimal(str(value).strip()) of each raw operand.
StrippedDecimal ==
    [value \in RawInputs \cup BoundaryInputs |-> ParseDecimal(Strip(value))]

\* The text as a Python str, for use in a message.
RECURSIVE Str(_)
Str(s) == IF s = <<>> THEN "" ELSE Head(s) \o Str(Tail(s))

\* InputValidator.validate_number on a raw operand: strip, parse, compare
\* the magnitude with config.max_input_value, normalize.
validate_number_Inclusive(value, config) ==
    LET number == StrippedDecimal[value]
    IN  IF ~number.ok
        THEN Raised("ValidationError",
                    "Invalid number format: " \o Str(Strip(value)))
        ELSE IF ~DecLt(DecAbs(number.value), DecInt(config.max_input_value))
        THEN Raised("ValidationError",
                    "Value exceeds maximum allowed: "
                        \o Str(NatToDigits(config.max_input_value)))
        ELSE Returned(DecNormalize(number.value))

validate_number(value, config) ==
    LET number == StrippedDecimal[value]
    IN  IF ~number.ok
        THEN Raised("ValidationError",
                    "Invalid number format: " \o Str(Strip(value)))
        ELSE IF DecLt(DecInt(config.max_input_value), DecAbs(number.value))
        THEN Raised("ValidationError",
                    "Value exceeds maximum allowed: "
                        \o Str(NatToDigits(config.max_input_value)))
        ELSE Returned(DecNormalize(number.value))

(***************************************************************************)
(* app/calculation.py                                                      *)
(***************************************************************************)
OperationNames ==
    {"Addition", "Subtraction", "Multiplication", "Division", "Power", "Root",
     "Modulus", "IntegerDivision", "Percentage", "AbsoluteDifference"}

IsIntegral(d) == d.exp >= 0

IntValue(d) == d.coef * Pow10(d.exp)

\* n is the square of a natural number.
IsSquare(n) == \E r \in 0..n : r * r = n

IntSqrt(n) == CHOOSE r \in 0..n : r * r = n

IsCube(n) == \E r \in 0..n : r * r * r = n

IntCbrt(n) == CHOOSE r \in 0..n : r * r * r = n

\* The double next below the integer r, as Decimal(float) gives it. Its
\* decimal expansion has 52 digits (for r = 4:
\* 3.999999999999999555910790149937383830547332763671875); the model keeps
\* the first nine, which leaves it below r and above every shorter decimal
\* the model computes.
NextBelow(r) == Dec(r * 100000000 - 1, -8)

\* Decimal(pow(float(x), 1 / float(y))) for integers x >= 0 and y in 1..3,
\* and for x > 0 and y in {-1, -2} where the root is a power of two, whose
\* reciprocal is an exact double.
\* 1 / 1.0 and 1 / 2.0 are exact and pow returns the exact root. 1 / 3.0 is
\* the double next below one third: pow returns the correctly rounded value
\* of x ** 0.33333333333333331, which is the integer root for the cubes
\* 0, 1, 8 and 27 and the double next below 4 for 64.
FloatRoot(x, y) ==
    IF y = -1 THEN DecDiv(DecInt(1), DecInt(x))
    ELSE IF y = -2 THEN DecDiv(DecInt(1), DecInt(IntSqrt(x)))
    ELSE IF y = 1 THEN DecInt(x)
    ELSE IF y = 2 THEN DecInt(IntSqrt(x))
    ELSE IF IntCbrt(x) < 4 THEN DecInt(IntCbrt(x))
    ELSE NextBelow(IntCbrt(x))

\* The operand pairs on which the model computes the operation as the code
\* does: quotients that are exact decimals of at most MaxDivDigits places,
\* and float powers and roots whose value is an exact small integer.
Representable(op, x, y) ==
    CASE op \in {"Division", "Percentage"} ->
            IF DecIsZero(y) THEN TRUE ELSE DecDivExact(x, y)
      [] op = "Power" ->
            IF DecLt(y, DecInt(0)) THEN TRUE
            ELSE IsIntegral(x) /\ IsIntegral(y) /\ IntValue(y) <= 4
                 /\ Abs(IntValue(x)) <= 9
      [] op = "Root" ->
            IF DecLt(x, DecInt(0)) \/ DecIsZero(y) THEN TRUE
            ELSE IsIntegral(x) /\ IsIntegral(y) /\ IntValue(x) <= 100
                 /\ (IntValue(y) = 1
                     \/ (IntValue(y) = 2 /\ IsSquare(IntValue(x)))
                     \/ (IntValue(y) = 3 /\ IsCube(IntValue(x)))
                     \/ (IntValue(y) < 0 /\ IntValue(x) = 0)
                     \/ (IntValue(y) = -1 /\ IntValue(x) \in {1, 2, 4, 8})
                     \/ (IntValue(y) = -2 /\ IntValue(x) \in {1, 4, 16, 64}))
      [] OTHER -> TRUE

\* A zero divisor answered with zero.
_raise_div_zero_Zero == Returned(Dec(0, 0))

_raise_div_zero == Raised("OperationError", "Division by zero is not allowed")

_raise_neg_power == Raised("OperationError", "Negative exponents are not supported")

\* _raise_invalid_root that looks at the sign of x before the zero degree.
_raise_invalid_root_SignFirst(x, y) ==
    IF DecLt(x, DecInt(0))
    THEN Raised("OperationError", "Cannot calculate root of negative number")
    ELSE IF DecIsZero(y) THEN Raised("OperationError", "Zero root is undefined")
    ELSE Raised("OperationError", "Invalid root operation")

_raise_invalid_root(x, y) ==
    IF DecIsZero(y) THEN Raised("OperationError", "Zero root is undefined")
    ELSE IF DecLt(x, DecInt(0))
    THEN Raised("OperationError", "Cannot calculate root of negative number")
    ELSE Raised("OperationError", "Invalid root operation")

_raise_percentage_div_zero ==
    Raised("OperationError", "Division by zero is not allowed for percentage")

\* The except clause of calculate: an arithmetic error of the operation is
\* raised again as an OperationError carrying its message.
CalculationFailed(e) == Raised("OperationError", "Calculation failed: " \o e)

\* str(e) of the ZeroDivisionError of pow(0.0, negative).
ZeroToNegativePower == "0.0 cannot be raised to a negative power"

\* An unknown name answered as a zero divisor is.
UnknownOperation_AsDivZero(operation) == _raise_div_zero

\* op = operations.get(self.operation); if not op: raise OperationError.
UnknownOperation(operation) ==
    Raised("OperationError", "Unknown operation: " \o operation)

\* Calculation.calculate: the table of operations, then the dispatch.
calculate(operation, x, y) ==
    IF operation \notin OperationNames
    THEN UnknownOperation(operation)
    ELSE CASE operation = "Addition" -> Returned(DecAdd(x, y))
           [] operation = "Subtraction" -> Returned(DecSub(x, y))
           [] operation = "Multiplication" -> Returned(DecMul(x, y))
           [] operation = "Division" ->
                IF ~DecIsZero(y) THEN Returned(DecDiv(x, y)) ELSE _raise_div_zero
           [] operation = "Power" ->
                IF ~DecLt(y, DecInt(0))
                THEN Returned(DecInt(IntPow(IntValue(x), IntValue(y))))
                ELSE _raise_neg_power
           [] operation = "Root" ->
                IF ~DecLt(x, DecInt(0)) /\ ~DecIsZero(y)
                THEN IF DecIsZero(x) /\ DecLt(y, DecInt(0))
                     THEN CalculationFailed(ZeroToNegativePower)
                     ELSE Returned(FloatRoot(IntValue(x), IntValue(y)))
                ELSE _raise_invalid_root(x, y)
           [] operation = "Modulus" ->
                IF ~DecIsZero(y) THEN Returned(DecMod(x, y)) ELSE _raise_div_zero
           [] operation = "IntegerDivision" ->
                IF ~DecIsZero(y) THEN Returned(DecInt(DecIntDiv(x, y)))
                ELSE _raise_div_zero
           [] operation = "Percentage" ->
                IF ~DecIsZero(y) THEN Returned(DecMul(DecDiv(x, y), DecInt(100)))
                ELSE _raise_div_zero
           [] operation = "AbsoluteDifference" -> Returned(DecAbs(DecSub(x, y)))

\* The dataclass: Calculation(operation, operand1, operand2) computes result
\* in __post_init__ and stamps the instance with datetime.now().
Calculation(operation, operand1, operand2, result, timestamp) ==
    [operation |-> operation, operand1 |-> operand1, operand2 |-> operand2,
     result |-> result, timestamp |-> timestamp]

\* Calculation.__eq__: the timestamp is not compared, decimals compare by value.
CalculationEq(c1, c2) ==
    /\ c1.operation = c2.operation
    /\ DecEq(c1.operand1, c2.operand1)
    /\ DecEq(c1.operand2, c2.operand2)
    /\ DecEq(c1.result, c2.result)

\* Calculation.to_dict
to_dict(calc) ==
    [operation |-> calc.operation,
     operand1 |-> DecToStr(calc.operand1),
     operand2 |-> DecToStr(calc.operand2),
     result |-> DecToStr(calc.result),
     timestamp |-> IsoFormat(calc.timestamp)]

NoCalculation == Calculation("None", Dec(0, 0), Dec(0, 0), Dec(0, 0), 0)

\* from_dict without its except clause: the KeyError, InvalidOperation or
\* ValueError leaves the call as it was raised.
InvalidData_Unwrapped(detail) ==
    [ok |-> FALSE, calc |-> NoCalculation, warning |-> FALSE,
     kind |-> "ValueError", message |-> detail]

\* The except clause of from_dict: KeyError, InvalidOperation and ValueError
\* are raised again as an OperationError carrying str(e).
InvalidData(detail) ==
    [ok |-> FALSE, calc |-> NoCalculation, warning |-> FALSE,
     kind |-> "OperationError",
     message |-> "Invalid calculation data: " \o detail]

\* str(e) of the KeyError of data[key], of the InvalidOperation of
\* Decimal(text) and of the ValueError of fromisoformat(text).
KeyError(key) == "'" \o key \o "'"

ConversionSyntax == "[<class 'decimal.ConversionSyntax'>]"

InvalidIsoformat(text) == "Invalid isoformat string: '" \o Str(text) \o "'"

Has(data, key) == key \in DOMAIN data

\* Decimal(data[key]) and fromisoformat(data['timestamp']); a missing key
\* reads as a failed conversion, and from_dict raises its KeyError first.
Parsed(data, key) ==
    IF Has(data, key) THEN ParseDecimal(data[key]) ELSE NoDecimal

Stamped(data) ==
    IF Has(data, "timestamp") THEN FromIsoFormat(data.timestamp)
    ELSE [ok |-> FALSE, value |-> 0]

Named(data) == IF Has(data, "operation") THEN data.operation ELSE "None"

\* The statements of from_dict in the order they raise: the operation and
\* the two operands, the Calculation built from them (whose OperationError
\* the except clause lets through), the timestamp, the stored result,
\* which is compared with the computed one and logged when it differs.
Reading(data, operand1, operand2, computed, stamp, saved) ==
    IF ~Has(data, "operation") THEN InvalidData(KeyError("operation"))
    ELSE IF ~Has(data, "operand1") THEN InvalidData(KeyError("operand1"))
    ELSE IF ~operand1.ok THEN InvalidData(ConversionSyntax)
    ELSE IF ~Has(data, "operand2") THEN InvalidData(KeyError("operand2"))
    ELSE IF ~operand2.ok THEN InvalidData(ConversionSyntax)
    ELSE IF ~computed.ok
    THEN [ok |-> FALSE, calc |-> NoCalculation, warning |-> FALSE,
          kind |-> computed.kind, message |-> computed.message]
    ELSE IF ~Has(data, "timestamp") THEN InvalidData(KeyError("timestamp"))
    ELSE IF ~stamp.ok THEN InvalidData(InvalidIsoformat(data.timestamp))
    ELSE IF ~Has(data, "result") THEN InvalidData(KeyError("result"))
    ELSE IF ~saved.ok THEN InvalidData(ConversionSyntax)
    ELSE [ok |-> TRUE,
          calc |-> Calculation(data.operation, operand1.value, operand2.value,
                               computed.value, stamp.value),
          warning |-> ~DecEq(computed.value, saved.value),
          kind |-> "None", message |-> "None"]

\* Calculation(operation=..., operand1=..., operand2=...) inside from_dict.
Constructing(data, operand1, operand2, stamp, saved) ==
    Reading(data, operand1, operand2,
            calculate(Named(data), operand1.value, operand2.value),
            stamp, saved)

\* from_dict that compares nothing and logs no warning.
from_dict_Silent(data) ==
    LET rebuilt == Constructing(data, Parsed(data, "operand1"),
                                Parsed(data, "operand2"), Stamped(data),
                                Parsed(data, "result"))
    IN  [rebuilt EXCEPT !.warning = FALSE]

\* from_dict that takes the stored result for the Calculation's.
from_dict_StoredResult(data) ==
    LET rebuilt == Constructing(data, Parsed(data, "operand1"),
                                Parsed(data, "operand2"), Stamped(data),
                                Parsed(data, "result"))
    IN  IF ~rebuilt.ok THEN rebuilt
        ELSE [rebuilt EXCEPT !.calc.result = Parsed(data, "result").value,
                             !.warning = FALSE]

\* Calculation.from_dict: the result is recomputed from the operands, the
\* stored one is only compared with it (a warning is logged when they
\* differ).
from_dict(data) ==
    Constructing(data, Parsed(data, "operand1"), Parsed(data, "operand2"),
                 Stamped(data), Parsed(data, "result"))

(***************************************************************************)
(* app/calculator_memento.py                                               *)
(***************************************************************************)
CalculatorMemento(history, timestamp) ==
    [history |-> history, timestamp |-> timestamp]

(***************************************************************************)
(* The inputs the model draws from.                                        *)
(***************************************************************************)
\* The strategies set_operation is called with.
Strategies == {"Division"}

\* The instants datetime.now() returns.
Instants == {0}

\* The observers add_observer and remove_observer are called with.
ObserverPool == {"LoggingObserver", "AutoSaveObserver"}

(***************************************************************************)
(* app/calculator.py: the state of a Calculator.                           *)
(***************************************************************************)
VARIABLES
    config,              \* self.config: max_history_size, auto_save, max_input_value
    history,             \* self.history: sequence of Calculation
    operation_strategy,  \* self.operation_strategy: "None" or a strategy
    observers,           \* self.observers: sequence of observers
    undo_stack,          \* self.undo_stack: sequence of CalculatorMemento
    redo_stack,          \* self.redo_stack: sequence of CalculatorMemento
    history_file,        \* config.history_file: the persisted records
    call,                \* the last call on the engine and its outcome
    trail,               \* what the calls since a perform or a clear were
    undone,              \* undos not yet redone since the last perform or clear
    loaded_over,         \* load_history has produced a history above the bound
    made,                \* the Calculation last constructed on its own
    heap,                \* the list objects behind history and the mementos
    record,              \* the persisted record from_dict is called on
    watch,               \* an observer's update called on its own
    settings,            \* the CalculatorConfig being built and validated
    past                 \* the engine before the last call, and the calls so far

vars == <<config, history, operation_strategy, observers, undo_stack,
          redo_stack, history_file, call, trail, undone, loaded_over, made,
          heap, record, watch, settings, past>>

\* What stands beside the engine: calls made on a record, an observer or a
\* configuration directly.
beside == <<record, watch, settings, past>>

engine == <<history, undo_stack, redo_stack>>

\* The outcome of a call: what it returned or raised, and the observers
\* whose update it called.
Outcome(op, ok, flag, value, kind, message, notified) ==
    [op |-> op, ok |-> ok, flag |-> flag, value |-> value, kind |-> kind,
     message |-> message, notified |-> notified]

Ok(op, flag, value, notified) ==
    Outcome(op, TRUE, flag, value, "None", "None", notified)

Fail(op, kind, message, notified) ==
    Outcome(op, FALSE, FALSE, Dec(0, 0), kind, message, notified)

\* trail: the phase of a perform / undo / redo or clear / undo / redo
\* sequence, with the history before and after its first call and the
\* sizes of the two stacks before it.
Trail(phase, before, after, undo_before, redo_before) ==
    [phase |-> phase, before |-> before, after |-> after,
     undo_before |-> undo_before, redo_before |-> redo_before]

NoTrail == Trail("none", <<>>, <<>>, 0, 0)

\* The history file: absent, or the rows of the table.
NoFile == [exists |-> FALSE, rows |-> <<>>]

File(rows) == [exists |-> TRUE, rows |-> rows]

(***************************************************************************)
(* Calculator.save_history / Calculator.load_history                       *)
(***************************************************************************)
\* The rows save_history writes for a history.
HistoryRows(h) == [i \in 1..Len(h) |-> to_dict(h[i])]

\* The history load_history builds from a file, or the failure of a row.
LoadedHistory(file) ==
    LET rebuilt == [i \in 1..Len(file.rows) |-> from_dict(file.rows[i])]
    IN  IF \E i \in 1..Len(rebuilt) : ~rebuilt[i].ok
        THEN [ok |-> FALSE, history |-> <<>>]
        ELSE [ok |-> TRUE, history |-> [i \in 1..Len(rebuilt) |-> rebuilt[i].calc]]

\* The history after load_history: unchanged when the file is absent, empty
\* or holds a row that fails to rebuild.
HistoryAfterLoad(h, file) ==
    IF ~file.exists \/ file.rows = <<>> \/ ~LoadedHistory(file).ok THEN h
    ELSE LoadedHistory(file).history

(***************************************************************************)
(* The operation strategies (app/operations.py): execute computes the      *)
(* operation of the table on two validated operands, str() of a strategy   *)
(* is the operation's name.                                                *)
(***************************************************************************)
StrategyName(strategy) == strategy

\* A strategy whose execute does not compute what the table computes under
\* the strategy's name.
execute_Subtracts(strategy, a, b) == calculate("Subtraction", a, b)

execute(strategy, a, b) == calculate(StrategyName(strategy), a, b)

(***************************************************************************)
(* Calculator.__init__                                                     *)
(***************************************************************************)
\* Persisted records a history file may hold when the engine starts.
RowAdd == [operation |-> "Addition", operand1 |-> <<"2">>, operand2 |-> <<"0">>,
           result |-> <<"2">>, timestamp |-> <<"0">>]

\* A record whose stored result is not the quotient of its operands.
RowDiv == [operation |-> "Division", operand1 |-> <<"0">>, operand2 |-> <<"2">>,
           result |-> <<"9">>, timestamp |-> <<"0">>]

\* No file, or a file of two records: above the bound when max_history_size
\* is 1, within it otherwise.
InitialFiles == {NoFile, File(<<RowAdd, RowDiv>>)}

\* Python's list objects. self.history and every memento's history name a
\* list by reference: lists maps each reference to the list's items, live is
\* self.history, undo and redo are the references the mementos of the two
\* stacks hold, oldest first.
HeapIds == 1..(MaxStack + 3)

HeapOf(items) ==
    [lists |-> [id \in HeapIds |-> IF id = 1 THEN items ELSE <<>>],
     live |-> 1, undo |-> <<>>, redo |-> <<>>]

\* The list objects are followed in SpecLists only.
NoLists == HeapOf(<<>>)

\* No Calculation has been constructed on its own yet.
NothingMade ==
    [operation |-> "None", operand1 |-> Dec(0, 0), operand2 |-> Dec(0, 0),
     outcome |-> Raised("None", "None")]

\* Calculator.__init__: the state of a new Calculator.
InitCalculator ==
    /\ config \in [max_history_size : (MaxHistorySize - 1)..MaxHistorySize,
                   auto_save : BOOLEAN,
                   max_input_value : {MaxInputValue}]
    /\ history_file \in InitialFiles
    /\ history = HistoryAfterLoad(<<>>, history_file)
    /\ operation_strategy = "None"
    /\ observers = <<>>
    /\ undo_stack = <<>>
    /\ redo_stack = <<>>
    /\ call = Ok("__init__", FALSE, Dec(0, 0), <<>>)
    /\ trail = NoTrail
    /\ undone = 0
    /\ loaded_over = (Len(history) > config.max_history_size)

\* Nothing has been called beside the engine.
NoDict == [key \in {} |-> <<>>]

NoRecord ==
    [phase |-> "none", calc |-> NoCalculation, data |-> NoDict,
     outcome |-> InvalidData("None")]

\* No observer has been built beside the engine's.
NoWatch ==
    [observer |-> "None", then |-> FALSE, phase |-> "none",
     given |-> NoCalculation, at |-> FALSE, held |-> <<>>,
     before |-> NoFile, after |-> NoFile, saved |-> 0,
     outcome |-> Raised("None", "None")]

\* No CalculatorConfig has been built beside the engine's.
NoSettings ==
    [phase |-> "none", max_history_size |-> <<>>, precision |-> <<>>,
     max_input_value |-> <<>>, environment |-> [set |-> FALSE, text |-> <<>>],
     built |-> [max_history_size |-> 0, precision |-> 0,
                max_input_value |-> Dec(0, 0)],
     outcome |-> Raised("None", "None")]

\* No run of performs under way.
NoRun == [phase |-> "off", start |-> <<>>, journal |-> <<>>, undos |-> 0]

\* No call made yet.
NoPast ==
    [prev |-> [op |-> "None", flag |-> FALSE],
     at |-> [history |-> <<>>, undo_stack |-> <<>>, redo_stack |-> <<>>],
     performed |-> FALSE,
     run |-> NoRun]

InitBeside ==
    /\ record = NoRecord /\ watch = NoWatch /\ settings = NoSettings
    /\ past = NoPast

Init ==
    /\ InitCalculator
    /\ InitBeside
    /\ made = NothingMade
    /\ heap = NoLists

(***************************************************************************)
(* Observers (app/history.py) and Calculator.notify_observers              *)
(***************************************************************************)
\* AutoSaveObserver.update calls save_history when config.auto_save is set;
\* LoggingObserver.update only logs.
Saves(observer) == observer = "AutoSaveObserver" /\ config.auto_save

\* notify_observers where the update of observer number failAt raises
\* (failAt = 0: none does): the observers whose update was called.
Notified_NewestFirst(failAt) ==
    LET n == IF failAt = 0 THEN Len(observers) ELSE failAt
    IN  [i \in 1..n |-> observers[Len(observers) + 1 - i]]

\* A notification that goes on after an update has raised.
Notified_All(failAt) == observers

Notified(failAt) ==
    IF failAt = 0 THEN observers ELSE SubSeq(observers, 1, failAt)

\* The history file after the notification: written by every update that
\* completed a save_history.
FileAfterNotify(h, failAt) ==
    LET last == IF failAt = 0 THEN Len(observers) ELSE failAt - 1
    IN  IF \E i \in 1..last : Saves(observers[i]) THEN File(HistoryRows(h))
        ELSE history_file

(***************************************************************************)
(* Calculator.perform_operation                                            *)
(***************************************************************************)
\* The history with the calculation appended and the oldest entry dropped
\* when the bound is exceeded.
HistoryAfterAppend_NoEviction(h, calculation, max_history_size) ==
    Append(h, calculation)

HistoryAfterAppend_EvictNewest(h, calculation, max_history_size) ==
    LET appended == Append(h, calculation)
    IN  IF Len(appended) > max_history_size
        THEN SubSeq(appended, 1, Len(appended) - 1) ELSE appended

HistoryAfterAppend(h, calculation, max_history_size) ==
    LET appended == Append(h, calculation)
    IN  IF Len(appended) > max_history_size THEN Tail(appended) ELSE appended

\* The state perform saves for undo: the history before it is changed.
StateToSave_AfterChange(before, after) == after

StateToSave(before, after) == before

\* self.redo_stack.clear()
ClearRedo_Kept(stack) == stack

ClearRedo_TopOnly(stack) ==
    IF stack = <<>> THEN stack ELSE SubSeq(stack, 1, Len(stack) - 1)

ClearRedo(stack) == <<>>

\* stack.append(CalculatorMemento(history.copy()))
PushMemento_ReplaceTop(stack, h, timestamp) ==
    IF stack = <<>> THEN <<CalculatorMemento(h, timestamp)>>
    ELSE [stack EXCEPT ![Len(stack)] = CalculatorMemento(h, timestamp)]

\* A stack that keeps no more mementos than the history keeps entries.
PushMemento_Bounded(stack, h, timestamp) ==
    LET pushed == Append(stack, CalculatorMemento(h, timestamp))
    IN  IF Len(pushed) > config.max_history_size THEN Tail(pushed) ELSE pushed

PushMemento(stack, h, timestamp) ==
    Append(stack, CalculatorMemento(h, timestamp))

\* A call that raises before the engine's state is touched.
Rejected_AfterPush(op, kind, message) ==
    /\ call' = Fail(op, kind, message, <<>>)
    /\ trail' = NoTrail
    /\ undo_stack' = Append(undo_stack, CalculatorMemento(history, 0))
    /\ UNCHANGED <<config, history, operation_strategy, observers,
                   redo_stack, history_file, undone, loaded_over, made>>

Rejected(op, kind, message) ==
    /\ call' = Fail(op, kind, message, <<>>)
    /\ trail' = NoTrail
    /\ UNCHANGED <<config, history, operation_strategy, observers, undo_stack,
                   redo_stack, history_file, undone, loaded_over, made>>

\* The observers whose update may raise: an AutoSaveObserver whose
\* save_history fails.  0 stands for a notification in which none raises.
FailurePoints == {0} \cup {i \in 1..Len(observers) : Saves(observers[i])}

\* What makes the write of the history file fail: str(e) of the OSError.
SaveFaults == {"[Errno 13] Permission denied"}

\* save_history's except clause: the error AutoSaveObserver.update lets out.
SaveFailure(cause) ==
    Raised("OperationError", "Failed to save history: " \o cause)

\* perform_operation's last except clause: an exception that is no
\* ValidationError leaves as OperationError("Operation failed: <str(e)>").
OperationFailed_SameError(e) == e

OperationFailed(e) ==
    Raised("OperationError", "Operation failed: " \o e.message)

\* a, b: the raw operands.  The instants tc and tm stamp the Calculation and
\* the memento; failAt is the observer whose update raises.
perform_operation(a, b) ==
    /\ Len(undo_stack) < MaxStack
    /\ IF operation_strategy = "None"
       THEN Rejected("perform", "OperationError", "No operation set")
       ELSE
       LET validated_a == validate_number(a, config)
           validated_b == validate_number(b, config)
       IN  IF ~validated_a.ok
           THEN Rejected("perform", validated_a.kind, validated_a.message)
           ELSE IF ~validated_b.ok
           THEN Rejected("perform", validated_b.kind, validated_b.message)
           ELSE
           LET name     == StrategyName(operation_strategy)
               result   == execute(operation_strategy,
                                   validated_a.value, validated_b.value)
               computed == calculate(name, validated_a.value, validated_b.value)
           IN  /\ Representable(name, validated_a.value, validated_b.value)
               /\ IF ~result.ok \/ ~computed.ok
                  THEN LET e == OperationFailed(IF ~result.ok THEN result
                                                ELSE computed)
                       IN  Rejected("perform", e.kind, e.message)
                  ELSE \E tc \in Instants, tm \in Instants,
                          failAt \in FailurePoints, cause \in SaveFaults :
                       LET calculation ==
                               Calculation(name, validated_a.value,
                                           validated_b.value, computed.value, tc)
                       IN
                       /\ history' = HistoryAfterAppend(history, calculation,
                                                        config.max_history_size)
                       /\ undo_stack' =
                              PushMemento(undo_stack,
                                          StateToSave(history, history'), tm)
                       /\ redo_stack' = ClearRedo(redo_stack)
                       /\ history_file' = FileAfterNotify(history', failAt)
                       /\ undone' = 0
                       /\ IF failAt = 0
                          THEN /\ call' = Ok("perform", FALSE, result.value,
                                             Notified(0))
                               /\ trail' = Trail("performed", history, history',
                                                 Len(undo_stack), Len(redo_stack))
                          ELSE LET e == OperationFailed(SaveFailure(cause))
                               IN  /\ call' = Fail("perform", e.kind, e.message,
                                                   Notified(failAt))
                                   /\ trail' = NoTrail
                       /\ UNCHANGED <<config, operation_strategy, observers,
                                      loaded_over, made>>

Perform == \E a \in RawInputs, b \in RawInputs : perform_operation(a, b)

(***************************************************************************)
(* Calculator.undo / Calculator.redo / Calculator.clear_history            *)
(***************************************************************************)
Top_Oldest(stack) == stack[1]

Top(stack) == stack[Len(stack)]

Pop_Oldest(stack) == Tail(stack)

Pop(stack) == SubSeq(stack, 1, Len(stack) - 1)

\* undo that saves the current state for redo before it looks at undo_stack.
undo_SaveFirst(tm) ==
    /\ IF undo_stack = <<>>
       THEN /\ call' = Ok("undo", FALSE, Dec(0, 0), <<>>)
            /\ redo_stack' = PushMemento(redo_stack, history, tm)
            /\ UNCHANGED <<history, undo_stack, undone>>
            /\ trail' = IF trail.phase = "cleared" THEN trail ELSE NoTrail
       ELSE /\ undo_stack' = Pop(undo_stack)
            /\ redo_stack' = PushMemento(redo_stack, history, tm)
            /\ history' = Top(undo_stack).history
            /\ undone' = undone + 1
            /\ call' = Ok("undo", TRUE, Dec(0, 0), <<>>)
            /\ trail' = IF trail.phase = "performed"
                        THEN [trail EXCEPT !.phase = "undone"]
                        ELSE IF trail.phase = "cleared" THEN trail ELSE NoTrail
    /\ UNCHANGED <<config, operation_strategy, observers, history_file,
                   loaded_over, made>>

\* undo that starts redo_stack afresh with the state it saves.
undo_ResetRedo(tm) ==
    /\ IF undo_stack = <<>>
       THEN /\ call' = Ok("undo", FALSE, Dec(0, 0), <<>>)
            /\ UNCHANGED <<history, undo_stack, redo_stack, undone>>
            /\ trail' = IF trail.phase = "cleared" THEN trail ELSE NoTrail
       ELSE /\ undo_stack' = Pop(undo_stack)
            /\ redo_stack' = <<CalculatorMemento(history, tm)>>
            /\ history' = Top(undo_stack).history
            /\ undone' = undone + 1
            /\ call' = Ok("undo", TRUE, Dec(0, 0), <<>>)
            /\ trail' = IF trail.phase = "performed"
                        THEN [trail EXCEPT !.phase = "undone"]
                        ELSE IF trail.phase = "cleared" THEN trail ELSE NoTrail
    /\ UNCHANGED <<config, operation_strategy, observers, history_file,
                   loaded_over, made>>

undo(tm) ==
    /\ IF undo_stack = <<>>
       THEN /\ call' = Ok("undo", FALSE, Dec(0, 0), <<>>)
            /\ UNCHANGED <<history, undo_stack, redo_stack, undone>>
            /\ trail' = IF trail.phase = "cleared" THEN trail ELSE NoTrail
       ELSE /\ undo_stack' = Pop(undo_stack)
            /\ redo_stack' = PushMemento(redo_stack, history, tm)
            /\ history' = Top(undo_stack).history
            /\ undone' = undone + 1
            /\ call' = Ok("undo", TRUE, Dec(0, 0), <<>>)
            /\ trail' = IF trail.phase = "performed"
                        THEN [trail EXCEPT !.phase = "undone"]
                        ELSE IF trail.phase = "cleared" THEN trail ELSE NoTrail
    /\ UNCHANGED <<config, operation_strategy, observers, history_file,
                   loaded_over, made>>

Undo == \E tm \in Instants : undo(tm)

redo(tm) ==
    /\ IF redo_stack = <<>>
       THEN /\ call' = Ok("redo", FALSE, Dec(0, 0), <<>>)
            /\ UNCHANGED <<history, undo_stack, redo_stack>>
            /\ trail' = IF trail.phase = "performed"
                        THEN [trail EXCEPT !.phase = "refused"]
                        ELSE IF trail.phase = "cleared" THEN trail ELSE NoTrail
       ELSE /\ redo_stack' = Pop(redo_stack)
            /\ undo_stack' = PushMemento(undo_stack, history, tm)
            /\ history' = Top(redo_stack).history
            /\ call' = Ok("redo", TRUE, Dec(0, 0), <<>>)
            /\ trail' = IF trail.phase = "undone"
                        THEN [trail EXCEPT !.phase = "redone"]
                        ELSE IF trail.phase = "cleared" THEN trail ELSE NoTrail
    /\ undone' = IF undone > 0 THEN undone - 1 ELSE 0
    /\ UNCHANGED <<config, operation_strategy, observers, history_file,
                   loaded_over, made>>

Redo == \E tm \in Instants : redo(tm)

\* clear_history that empties the history and leaves the two stacks.
clear_history_HistoryOnly ==
    /\ history' = <<>>
    /\ UNCHANGED <<undo_stack, redo_stack>>
    /\ undone' = 0
    /\ call' = Ok("clear_history", FALSE, Dec(0, 0), <<>>)
    /\ trail' = Trail("cleared", history, <<>>,
                       Len(undo_stack), Len(redo_stack))
    /\ UNCHANGED <<config, operation_strategy, observers, history_file,
                   loaded_over, made>>

\* A clear that tells the observers.
clear_history_Saves ==
    /\ history' = <<>>
    /\ undo_stack' = <<>>
    /\ redo_stack' = <<>>
    /\ undone' = 0
    /\ history_file' = FileAfterNotify(<<>>, 0)
    /\ call' = Ok("clear_history", FALSE, Dec(0, 0), Notified(0))
    /\ trail' = Trail("cleared", history, <<>>,
                       Len(undo_stack), Len(redo_stack))
    /\ UNCHANGED <<config, operation_strategy, observers, loaded_over, made>>

clear_history ==
    /\ history' = <<>>
    /\ undo_stack' = <<>>
    /\ redo_stack' = <<>>
    /\ undone' = 0
    /\ call' = Ok("clear_history", FALSE, Dec(0, 0), <<>>)
    /\ trail' = Trail("cleared", history, <<>>,
                       Len(undo_stack), Len(redo_stack))
    /\ UNCHANGED <<config, operation_strategy, observers, history_file,
                   loaded_over, made>>

(***************************************************************************)
(* set_operation, add_observer, remove_observer                            *)
(***************************************************************************)
set_operation(operation) ==
    /\ operation_strategy' = operation
    /\ call' = Ok("set_operation", FALSE, Dec(0, 0), <<>>)
    /\ trail' = NoTrail
    /\ UNCHANGED <<config, history, observers, undo_stack, redo_stack,
                   history_file, undone, loaded_over, made>>

SetOperation == \E operation \in Strategies : set_operation(operation)

add_observer(observer) ==
    /\ observers' = Append(observers, observer)
    /\ call' = Ok("add_observer", FALSE, Dec(0, 0), <<>>)
    /\ trail' = NoTrail
    /\ UNCHANGED <<config, history, operation_strategy, undo_stack, redo_stack,
                   history_file, undone, loaded_over, made>>

AddObserver ==
    /\ Len(observers) < MaxObservers
    /\ \E observer \in ObserverPool : add_observer(observer)

\* list.remove: the first occurrence goes, ValueError when there is none.
RemoveFirst(s, x) ==
    LET i == IndexOf(s, x)
    IN  SubSeq(s, 1, i - 1) \o SubSeq(s, i + 1, Len(s))

\* remove_observer that ignores an observer it does not hold.
remove_observer_Silent(observer) ==
    /\ observers' = IF IndexOf(observers, observer) = 0 THEN observers
                    ELSE RemoveFirst(observers, observer)
    /\ call' = Ok("remove_observer", FALSE, Dec(0, 0), <<>>)
    /\ trail' = NoTrail
    /\ UNCHANGED <<config, history, operation_strategy, undo_stack,
                   redo_stack, history_file, undone, loaded_over, made>>

remove_observer(observer) ==
    IF IndexOf(observers, observer) = 0
    THEN Rejected("remove_observer", "ValueError", "x not in list")
    ELSE /\ observers' = RemoveFirst(observers, observer)
         /\ call' = Ok("remove_observer", FALSE, Dec(0, 0), <<>>)
         /\ trail' = NoTrail
         /\ UNCHANGED <<config, history, operation_strategy, undo_stack,
                        redo_stack, history_file, undone, loaded_over, made>>

RemoveObserver == \E observer \in ObserverPool : remove_observer(observer)

Next ==
    \/ Perform /\ UNCHANGED <<heap, beside>>
    \/ Undo /\ UNCHANGED <<heap, beside>>
    \/ Redo /\ UNCHANGED <<heap, beside>>
    \/ clear_history /\ UNCHANGED <<heap, beside>>
    \/ SetOperation /\ UNCHANGED <<heap, beside>>
    \/ AddObserver /\ UNCHANGED <<heap, beside>>
    \/ RemoveObserver /\ UNCHANGED <<heap, beside>>

Spec == Init /\ [][Next]_vars

(***************************************************************************)
(* The calls of an engine that starts without a history file and with the  *)
(* smaller history bound, with operands at the limits of the validator     *)
(* and up to MaxRegistered observers.                                      *)
(***************************************************************************)
InitCalls ==
    /\ Init
    /\ history_file = NoFile
    /\ config.max_history_size = MaxHistorySize - 1

PerformCall == \E a \in BoundaryInputs, b \in BoundaryInputs : perform_operation(a, b)

AddObserverCall ==
    /\ Len(observers) < MaxRegistered
    /\ \E observer \in ObserverPool : add_observer(observer)

NextCalls ==
    \/ PerformCall /\ UNCHANGED <<heap, beside>>
    \/ Undo /\ UNCHANGED <<heap, beside>>
    \/ SetOperation /\ UNCHANGED <<heap, beside>>
    \/ AddObserverCall /\ UNCHANGED <<heap, beside>>
    \/ RemoveObserver /\ UNCHANGED <<heap, beside>>

SpecCalls == InitCalls /\ [][NextCalls]_vars

\* The calls on an engine that holds at most MaxObservers observers.
NextOperands ==
    \/ PerformCall /\ UNCHANGED <<heap, beside>>
    \/ Undo /\ UNCHANGED <<heap, beside>>
    \/ SetOperation /\ UNCHANGED <<heap, beside>>
    \/ AddObserver /\ UNCHANGED <<heap, beside>>

SpecOperands == InitCalls /\ [][NextOperands]_vars

(***************************************************************************)
(* app/calculation.py: Calculation(operation, operand1, operand2) built on *)
(* its own from integer operands, as the tests of the model do.            *)
(***************************************************************************)
MaxOperand == 10

\* The integers the operands are drawn from: every value up to MaxOperand
\* in size, and the squares and cubes Root is asked about.
Operands == {DecInt(n) : n \in (-MaxOperand..MaxOperand) \cup {16, 27, 64}}

\* Operation names outside the table: another case, and the empty name.
OtherNames == {"addition", ""}

\* A Calculation whose fields are set and whose result is still to compute.
Pending == Raised("None", "None")

\* __post_init__: self.result = self.calculate().
__post_init__ ==
    /\ made.outcome = Pending
    /\ made' = [made EXCEPT !.outcome = calculate(made.operation,
                                                  made.operand1,
                                                  made.operand2)]
    /\ UNCHANGED <<config, history, operation_strategy, observers, undo_stack,
                   redo_stack, history_file, call, trail, undone, loaded_over,
                   heap, beside>>

InitCalculation ==
    /\ InitCalculator
    /\ history_file = NoFile
    /\ config.max_history_size = MaxHistorySize
    /\ ~config.auto_save
    /\ made \in {m \in [operation : OperationNames \cup OtherNames,
                         operand1 : Operands,
                         operand2 : Operands, outcome : {Pending}] :
                    Representable(m.operation, m.operand1, m.operand2)}
    /\ heap = NoLists
    /\ InitBeside

NextCalculation == __post_init__

SpecCalculation == InitCalculation /\ [][NextCalculation]_vars

(***************************************************************************)
(* app/calculation.py: to_dict and from_dict called on their own, on the   *)
(* dict of a Calculation and on records as a history file may hold them.   *)
(***************************************************************************)
\* Operands with a fraction, an exponent and a sign, and two instants.
RecordOperands == {Dec(0, 0), Dec(2, 0), Dec(-5, 0), Dec(15, -1), Dec(1, 2)}

RecordOperations == {"Addition", "Multiplication", "Division", "Root"}

Stamps == {0, 12}

\* The Calculations the constructor builds from them.
ValidCalculations ==
    {Calculation(q.operation, q.x, q.y, calculate(q.operation, q.x, q.y).value,
                 q.t) :
        q \in {p \in [operation : RecordOperations, x : RecordOperands,
                       y : RecordOperands, t : Stamps] :
                  /\ Representable(p.operation, p.x, p.y)
                  /\ calculate(p.operation, p.x, p.y).ok}}

Keys == {"operation", "operand1", "operand2", "result", "timestamp"}

\* Records with all five keys: a known and an unknown operation, operands
\* and a result that are numbers or not, a result that is the quotient, the
\* quotient written otherwise, or another number, a timestamp or none.
FullRecords ==
    [operation : {"Division", "addition"},
     operand1 : {<<"2">>, <<"x">>},
     operand2 : {<<"2">>, <<"0">>, <<"x">>},
     result : {<<"1">>, <<"1", ".", "0">>, <<"9">>, <<"x">>},
     timestamp : {<<"0">>, <<"x">>}]

\* The same records, and each with one key missing.
StoredRecords ==
    {[key \in present |-> full[key]] :
        full \in FullRecords,
        present \in {Keys} \cup {Keys \ {key} : key \in Keys}}

\* c.to_dict()
ToDict ==
    /\ record.phase = "made"
    /\ record' = [record EXCEPT !.phase = "stored", !.data = to_dict(record.calc)]
    /\ UNCHANGED <<config, history, operation_strategy, observers, undo_stack,
                   redo_stack, history_file, call, trail, undone, loaded_over,
                   made, heap, watch, settings, past>>

\* Calculation.from_dict(data)
FromDict ==
    /\ record.phase = "stored"
    /\ record' = [record EXCEPT !.phase = "rebuilt",
                                !.outcome = from_dict(record.data)]
    /\ UNCHANGED <<config, history, operation_strategy, observers, undo_stack,
                   redo_stack, history_file, call, trail, undone, loaded_over,
                   made, heap, watch, settings, past>>

InitRecords ==
    /\ InitCalculator
    /\ history_file = NoFile
    /\ config.max_history_size = MaxHistorySize
    /\ ~config.auto_save
    /\ made = NothingMade
    /\ heap = NoLists
    /\ watch = NoWatch
    /\ settings = NoSettings
    /\ past = NoPast
    /\ \/ record \in {[NoRecord EXCEPT !.phase = "made", !.calc = c] :
                          c \in ValidCalculations}
       \/ record \in {[NoRecord EXCEPT !.phase = "stored", !.data = d] :
                          d \in StoredRecords}

NextRecords == ToDict \/ FromDict

SpecRecords == InitRecords /\ [][NextRecords]_vars

(***************************************************************************)
(* app/history.py: an observer built on the calculator and updated by hand, *)
(* as the tests of the observers do, while the calculator goes on           *)
(* computing and its auto_save flag is switched.                            *)
(***************************************************************************)
\* update(None): both observers raise before anything else.
CalculationIsNone == Raised("AttributeError", "Calculation cannot be None")

\* What a call of update leaves: how it ended, the calls of save_history it
\* made, and the history file.
Updated(outcome, saved, file) ==
    [outcome |-> outcome, saved |-> saved, file |-> file]

\* save_history called from update; fault is str(e) of the error of the
\* write, "None" when it succeeds.
save_history(fault) ==
    IF fault = "None"
    THEN Updated(Returned(Dec(0, 0)), 1, File(HistoryRows(history)))
    ELSE Updated(SaveFailure(fault), 1, history_file)

\* update that looks at the flag before it looks at the calculation.
update_SaveFirst(observer, calculation, fault) ==
    IF Saves(observer) THEN save_history(fault)
    ELSE IF calculation = NoCalculation
         THEN Updated(CalculationIsNone, 0, history_file)
         ELSE Updated(Returned(Dec(0, 0)), 0, history_file)

\* update of an AutoSaveObserver that keeps the flag it was built under.
update_FlagAtRegistration(observer, calculation, fault) ==
    IF calculation = NoCalculation
    THEN Updated(CalculationIsNone, 0, history_file)
    ELSE IF observer = "AutoSaveObserver" /\ watch.then
         THEN save_history(fault)
         ELSE Updated(Returned(Dec(0, 0)), 0, history_file)

\* LoggingObserver.update and AutoSaveObserver.update.
update(observer, calculation, fault) ==
    IF calculation = NoCalculation
    THEN Updated(CalculationIsNone, 0, history_file)
    ELSE IF Saves(observer)
         THEN save_history(fault)
         ELSE Updated(Returned(Dec(0, 0)), 0, history_file)

\* The calculations update is called with; NoCalculation stands for None.
UpdateArguments ==
    {NoCalculation,
     Calculation("Addition", Dec(2, 0), Dec(2, 0), Dec(4, 0), 0)}

\* LoggingObserver() and AutoSaveObserver(calculator)
NewObserver ==
    /\ \E observer \in ObserverPool :
          watch' = [NoWatch EXCEPT !.observer = observer,
                                   !.then = config.auto_save]
    /\ UNCHANGED <<config, history, operation_strategy, observers, undo_stack,
                   redo_stack, history_file, call, trail, undone, loaded_over,
                   made, heap, record, settings, past>>

\* calculator.config.auto_save = flag
SetAutoSave ==
    /\ \E flag \in BOOLEAN : config' = [config EXCEPT !.auto_save = flag]
    /\ UNCHANGED <<history, operation_strategy, observers, undo_stack,
                   redo_stack, history_file, call, trail, undone, loaded_over,
                   made, heap, beside>>

\* observer.update(calculation)
Update ==
    /\ watch.observer # "None"
    /\ \E calculation \in UpdateArguments, fault \in {"None"} \cup SaveFaults :
          LET u == update(watch.observer, calculation, fault)
          IN  /\ watch' = [watch EXCEPT !.phase = "updated",
                                        !.given = calculation,
                                        !.at = config.auto_save,
                                        !.held = history,
                                        !.before = history_file,
                                        !.after = u.file,
                                        !.saved = u.saved,
                                        !.outcome = u.outcome]
              /\ history_file' = u.file
    /\ UNCHANGED <<config, history, operation_strategy, observers, undo_stack,
                   redo_stack, call, trail, undone, loaded_over, made, heap,
                   record, settings, past>>

InitUpdates ==
    /\ Init
    /\ config.max_history_size = MaxHistorySize

NextUpdates ==
    \/ NewObserver
    \/ SetAutoSave
    \/ Update
    \/ SetOperation /\ UNCHANGED <<heap, beside>>
    \/ Perform /\ UNCHANGED <<heap, beside>>

SpecUpdates == InitUpdates /\ [][NextUpdates]_vars

(***************************************************************************)
(* app/calculator_config.py: CalculatorConfig(max_history_size, precision,  *)
(* max_input_value) under a value of CALCULATOR_MAX_HISTORY_SIZE, then      *)
(* validate() or Calculator(config).  An argument is <<>> for None and      *)
(* <<v>> for the value v; the other variables of the environment are unset. *)
(***************************************************************************)
None == <<>>

Unset == [set |-> FALSE, text |-> <<>>]

Exported(text) == [set |-> TRUE, text |-> text]

\* os.getenv(name, default)
getenv(environment, default) ==
    IF environment.set THEN environment.text ELSE default

\* int(text): surrounding whitespace is dropped, anything but an optionally
\* signed run of digits raises ValueError (ok = FALSE).
int(text) == ParseSignedInt(Strip(text))

\* bool(argument) for an argument that is None or a number.
Truthy(argument) == argument # None /\ argument[1] # 0

\* The arguments and the environment CalculatorConfig is called with.
HistorySizes == {None, <<-1>>, <<0>>, <<1>>, <<2>>}

Precisions == {None, <<-1>>, <<0>>, <<3>>}

InputValues == {None, <<0>>, <<5>>}

Environments ==
    {Unset, Exported(<<"5">>), Exported(<<"0">>), Exported(<<"-", "1">>),
     Exported(<<"x">>)}

\* max_history_size or int(os.getenv('CALCULATOR_MAX_HISTORY_SIZE', '1000'))
MaxHistorySizeOf(argument, environment) ==
    IF Truthy(argument) THEN [ok |-> TRUE, value |-> argument[1]]
    ELSE int(getenv(environment, <<"1", "0", "0", "0">>))

\* precision or int(os.getenv('CALCULATOR_PRECISION', '10'))
PrecisionOf(argument) ==
    IF Truthy(argument) THEN argument[1] ELSE int(<<"1", "0">>).value

\* max_input_value or Decimal(os.getenv('CALCULATOR_MAX_INPUT_VALUE', '1e999'))
MaxInputValueOf(argument) ==
    IF Truthy(argument) THEN DecInt(argument[1])
    ELSE ParseDecimal(<<"1", "e", "9", "9", "9">>).value

ConfigurationError(message) == Raised("ConfigurationError", message)

\* CalculatorConfig.validate on the fields of a configuration.
validate(fields) ==
    IF fields.max_history_size <= 0
    THEN ConfigurationError("max_history_size must be positive")
    ELSE IF fields.precision <= 0
    THEN ConfigurationError("precision must be positive")
    ELSE IF fields.max_input_value.coef <= 0
    THEN ConfigurationError("max_input_value must be positive")
    ELSE Returned(Dec(0, 0))

\* CalculatorConfig(max_history_size=..., precision=..., max_input_value=...)
CalculatorConfig ==
    /\ settings.phase = "called"
    /\ LET size == MaxHistorySizeOf(settings.max_history_size,
                                    settings.environment)
       IN  IF ~size.ok
           THEN settings' =
                    [settings EXCEPT !.phase = "raised",
                                     !.outcome = Raised("ValueError",
                                         "invalid literal for int() with base 10")]
           ELSE settings' =
                    [settings EXCEPT
                        !.phase = "built",
                        !.built = [max_history_size |-> size.value,
                                   precision |-> PrecisionOf(settings.precision),
                                   max_input_value |->
                                       MaxInputValueOf(settings.max_input_value)]]
    /\ UNCHANGED <<config, history, operation_strategy, observers, undo_stack,
                   redo_stack, history_file, call, trail, undone, loaded_over,
                   made, heap, record, watch, past>>

\* config.validate()
Validate ==
    /\ settings.phase = "built"
    /\ settings' = [settings EXCEPT !.phase = "validated",
                                    !.outcome = validate(settings.built)]
    /\ UNCHANGED <<config, history, operation_strategy, observers, undo_stack,
                   redo_stack, history_file, call, trail, undone, loaded_over,
                   made, heap, record, watch, past>>

\* Calculator(config): the configuration is kept and validated before
\* anything else; a configuration that validates becomes the engine's, and
\* the engine starts as InitCalculator leaves it.
NewCalculator ==
    /\ settings.phase = "built"
    /\ settings' = [settings EXCEPT
                        !.phase = IF validate(settings.built).ok
                                  THEN "engine" ELSE "rejected",
                        !.outcome = validate(settings.built)]
    /\ config' = IF validate(settings.built).ok
                 THEN [config EXCEPT
                          !.max_history_size = settings.built.max_history_size]
                 ELSE config
    /\ UNCHANGED <<history, operation_strategy, observers, undo_stack,
                   redo_stack, history_file, call, trail, undone, loaded_over,
                   made, heap, record, watch, past>>

InitConfig ==
    /\ InitCalculator
    /\ history_file = NoFile
    /\ config.max_history_size = MaxHistorySize
    /\ ~config.auto_save
    /\ made = NothingMade
    /\ heap = NoLists
    /\ record = NoRecord
    /\ watch = NoWatch
    /\ past = NoPast
    /\ settings \in {[NoSettings EXCEPT !.phase = "called",
                                        !.max_history_size = size,
                                        !.precision = precision,
                                        !.max_input_value = value,
                                        !.environment = environment] :
                         size \in HistorySizes, precision \in Precisions,
                         value \in InputValues, environment \in Environments}

NextConfig == CalculatorConfig \/ Validate \/ NewCalculator

SpecConfig == InitConfig /\ [][NextConfig]_vars

(***************************************************************************)
(* app/calculator.py at the level of list objects: which list self.history *)
(* and each memento name, and what the statements of perform_operation,    *)
(* undo, redo and clear_history do to those lists.                         *)
(***************************************************************************)
Range(s) == {s[i] : i \in 1..Len(s)}

\* The lists something still names; CPython frees the others.
Referenced(hp) == {hp.live} \cup Range(hp.undo) \cup Range(hp.redo)

Collect(hp) ==
    [hp EXCEPT !.lists = [id \in HeapIds |->
                             IF id \in Referenced(hp) THEN hp.lists[id]
                             ELSE <<>>]]

\* list.copy() handing back the list it was called on.
copy_Alias(hp, id) == id

\* list.copy(): the reference of the new list the copy is made in.
copy(hp, id) ==
    CHOOSE new \in HeapIds \ Referenced(hp) :
        \A other \in HeapIds \ Referenced(hp) : new <= other

\* CalculatorMemento(self.history.copy()) pushed on a stack: the list of
\* reference ref holds the items of the live list from now on.
Snapshot(hp, ref) == [hp EXCEPT !.lists[ref] = hp.lists[hp.live]]

\* perform_operation, lines 209-219, for the Calculation it built.
perform_lists(hp, calculation, max) ==
    LET ref == copy(hp, hp.live)
        pushed == [Snapshot(hp, ref) EXCEPT !.undo = Append(@, ref),
                                            !.redo = <<>>]
        appended == [pushed EXCEPT !.lists[pushed.live] = Append(@, calculation)]
        evicted == IF Len(appended.lists[appended.live]) > max
                   THEN [appended EXCEPT !.lists[appended.live] = Tail(@)]
                   ELSE appended
    IN  Collect(evicted)

\* undo, lines 371-377.
undo_lists(hp) ==
    IF hp.undo = <<>> THEN hp
    ELSE LET memento == Top(hp.undo)
             ref == copy(hp, hp.live)
             saved == [Snapshot(hp, ref) EXCEPT !.redo = Append(@, ref)]
             restored == copy(saved, memento)
         IN  Collect([saved EXCEPT !.lists[restored] = saved.lists[memento],
                                   !.live = restored,
                                   !.undo = Pop(@)])

\* redo, lines 390-396.
redo_lists(hp) ==
    IF hp.redo = <<>> THEN hp
    ELSE LET memento == Top(hp.redo)
             ref == copy(hp, hp.live)
             saved == [Snapshot(hp, ref) EXCEPT !.undo = Append(@, ref)]
             restored == copy(saved, memento)
         IN  Collect([saved EXCEPT !.lists[restored] = saved.lists[memento],
                                   !.live = restored,
                                   !.redo = Pop(@)])

\* clear_history, lines 355-357: the live list is emptied in place.
clear_lists(hp) ==
    Collect([hp EXCEPT !.lists[hp.live] = <<>>, !.undo = <<>>, !.redo = <<>>])

PerformLists ==
    \E a \in RawInputs, b \in RawInputs :
        /\ perform_operation(a, b)
        /\ heap' = IF Len(undo_stack') > Len(undo_stack)
                   THEN perform_lists(heap, Top(history'),
                                      config.max_history_size)
                   ELSE heap
        /\ UNCHANGED beside

UndoLists ==
    /\ \E tm \in Instants : undo(tm) /\ heap' = undo_lists(heap)
    /\ UNCHANGED beside

RedoLists ==
    /\ \E tm \in Instants : redo(tm) /\ heap' = redo_lists(heap)
    /\ UNCHANGED beside

ClearLists == clear_history /\ heap' = clear_lists(heap) /\ UNCHANGED beside

InitLists ==
    /\ InitCalculator
    /\ ~config.auto_save
    /\ made = NothingMade
    /\ heap = HeapOf(history)
    /\ InitBeside

NextLists ==
    \/ PerformLists
    \/ UndoLists
    \/ RedoLists
    \/ ClearLists
    \/ SetOperation /\ UNCHANGED <<heap, beside>>

SpecLists == InitLists /\ [][NextLists]_vars

(***************************************************************************)
(* The calls of an engine with the smaller history bound that saves its    *)
(* history automatically, followed from                                    *)
(* one call to the next: what the engine held before the last call, what   *)
(* the call before it was, whether a perform has returned, and the run of  *)
(* performs made from empty stacks with the undos that follow it.          *)
(***************************************************************************)
\* The histories the mementos of a stack hold, bottom first.
Snapshots(stack) == [i \in 1..Len(stack) |-> stack[i].history]

\* The run after the call: a successful perform from empty stacks starts a
\* run, a successful perform after it extends it with the history it found,
\* undos after the run are counted until one has returned false, and any
\* other call ends it.
RunAfter ==
    IF call'.op = "perform" /\ call'.ok
    THEN IF undo_stack = <<>> /\ redo_stack = <<>>
         THEN [phase |-> "performing", start |-> history,
               journal |-> <<history>>, undos |-> 0]
         ELSE IF past.run.phase = "performing"
         THEN [past.run EXCEPT !.journal = Append(@, history)]
         ELSE NoRun
    ELSE IF /\ call'.op = "undo"
            /\ past.run.phase \in {"performing", "undoing"}
            /\ past.run.undos <= Len(past.run.journal)
    THEN [past.run EXCEPT !.phase = "undoing", !.undos = @ + 1]
    ELSE NoRun

Follow ==
    past' = [prev |-> [op |-> call.op, flag |-> call.flag],
             at |-> [history |-> history,
                     undo_stack |-> Snapshots(undo_stack),
                     redo_stack |-> Snapshots(redo_stack)],
             performed |-> past.performed \/ (call'.op = "perform" /\ call'.ok),
             run |-> RunAfter]

beyond == <<heap, record, watch, settings>>

InitFollowed ==
    /\ Init
    /\ config.max_history_size = MaxHistorySize - 1
    /\ config.auto_save

\* Operands that pass the validation: a zero and a padded two.
FollowedInputs == {<<"0">>, <<" ", "2">>}

PerformFollowed ==
    \E a \in FollowedInputs, b \in FollowedInputs : perform_operation(a, b)

NextFollowed ==
    \/ PerformFollowed /\ Follow /\ UNCHANGED beyond
    \/ Undo /\ Follow /\ UNCHANGED beyond
    \/ Redo /\ Follow /\ UNCHANGED beyond
    \/ SetOperation /\ Follow /\ UNCHANGED beyond
    \/ AddObserver /\ Follow /\ UNCHANGED beyond

SpecFollowed == InitFollowed /\ [][NextFollowed]_vars

(***************************************************************************)
(* Properties of the history engine.                                       *)
(***************************************************************************)
max_size == config.max_history_size

PerformSucceeded == call.op = "perform" /\ call.ok

\* A perform that found the history full and dropped its oldest entry.
PerformEvicted ==
    /\ trail.phase = "performed"
    /\ Len(trail.before) = max_size
    /\ max_size >= 2

\* C1: an engine whose history was never loaded above the bound keeps
\* len(history) <= max_history_size in every state between calls.
C1_HistoryBounded == ~loaded_over => Len(history) <= max_size

C1_Witness == ~loaded_over /\ PerformEvicted /\ Len(history) = max_size

\* C2: after a successful perform the redo stack is empty, whatever it held
\* before the call.
C2_RedoClearedByPerform == PerformSucceeded => redo_stack = <<>>

C2_Witness ==
    PerformSucceeded /\ trail.phase = "performed" /\ trail.redo_before > 0

\* C3: a successful perform on a history H within the bound yields H + [c]
\* when len(H) < max_size and tail(H) + [c] when len(H) = max_size, c being
\* a new Calculation whose result is the one its operation computes; the
\* surviving entries keep their order and c is last.
C3_PerformAppendsAndEvicts ==
    [][(call'.op = "perform" /\ call'.ok /\ Len(history) <= max_size) =>
          LET c == history'[Len(history')]
          IN  /\ history' # <<>>
              /\ calculate(c.operation, c.operand1, c.operand2) = Returned(c.result)
              /\ Len(history) < max_size =>
                    /\ history' = history \o <<c>>
                    /\ Len(history') = Len(history) + 1
              /\ Len(history) = max_size =>
                    /\ history' = Tail(history) \o <<c>>
                    /\ Len(history') = max_size]_vars

C3_Witness ==
    /\ PerformSucceeded /\ PerformEvicted
    /\ history[1] = trail.before[2]
    /\ history[1] # trail.before[1]

\* C4: a successful perform pushes exactly one memento onto undo_stack, it
\* holds the history as it was before the call, and the entries below it
\* are unchanged.
C4_PerformPushesPriorHistory ==
    [][(call'.op = "perform" /\ call'.ok) =>
          /\ Len(undo_stack') = Len(undo_stack) + 1
          /\ SubSeq(undo_stack', 1, Len(undo_stack)) = undo_stack
          /\ undo_stack'[Len(undo_stack')].history = history]_vars

C4_Witness ==
    /\ PerformSucceeded /\ PerformEvicted
    /\ Len(undo_stack) = 2
    /\ undo_stack[2].history = trail.before
    /\ undo_stack[1].history # undo_stack[2].history

\* C5: undo with a non-empty undo_stack returns true, removes exactly the
\* top memento of undo_stack, pushes one memento of the history before the
\* call onto redo_stack and makes the removed memento's history the live one.
C5_UndoRestoresTop ==
    [][(call'.op = "undo" /\ undo_stack # <<>>) =>
          /\ call'.ok /\ call'.flag
          /\ undo_stack' = SubSeq(undo_stack, 1, Len(undo_stack) - 1)
          /\ Len(redo_stack') = Len(redo_stack) + 1
          /\ redo_stack'[Len(redo_stack')].history = history
          /\ history' = undo_stack[Len(undo_stack)].history]_vars

C5_Witness ==
    /\ call.op = "undo" /\ call.flag
    /\ undo_stack # <<>>
    /\ redo_stack # <<>>
    /\ history # redo_stack[Len(redo_stack)].history
    /\ history # undo_stack[Len(undo_stack)].history

\* C6: redo with a non-empty redo_stack returns true, removes exactly the
\* top memento of redo_stack, pushes one memento of the history before the
\* call onto undo_stack and makes the removed memento's history the live one.
C6_RedoRestoresTop ==
    [][(call'.op = "redo" /\ redo_stack # <<>>) =>
          /\ call'.ok /\ call'.flag
          /\ redo_stack' = SubSeq(redo_stack, 1, Len(redo_stack) - 1)
          /\ Len(undo_stack') = Len(undo_stack) + 1
          /\ undo_stack'[Len(undo_stack')].history = history
          /\ history' = redo_stack[Len(redo_stack)].history]_vars

C6_Witness ==
    /\ call.op = "redo" /\ call.flag
    /\ undo_stack # <<>>
    /\ redo_stack # <<>>
    /\ history # undo_stack[Len(undo_stack)].history
    /\ history # redo_stack[Len(redo_stack)].history

\* C7: undo on an empty undo_stack and redo on an empty redo_stack return
\* false and leave history, undo_stack and redo_stack unchanged.
C7_EmptyStackNoOp ==
    [][/\ (call'.op = "undo" /\ undo_stack = <<>>) =>
             (call'.ok /\ ~call'.flag /\ UNCHANGED engine)
       /\ (call'.op = "redo" /\ redo_stack = <<>>) =>
             (call'.ok /\ ~call'.flag /\ UNCHANGED engine)]_vars

C7_Witness ==
    /\ call.op = "undo" /\ ~call.flag
    /\ undo_stack = <<>>
    /\ redo_stack # <<>>
    /\ history # <<>>

\* C8: a successful perform followed by undo leaves the history as it was
\* before the perform, an eviction included, and a following redo leaves
\* it as it was right after the perform.
C8_PerformUndoRedo ==
    /\ trail.phase = "undone" => history = trail.before
    /\ trail.phase = "redone" => history = trail.after

C8_Witness ==
    /\ trail.phase = "redone"
    /\ Len(trail.before) = max_size
    /\ max_size >= 2
    /\ trail.after[1] = trail.before[2]
    /\ history # trail.before

\* C9: clear_history empties history, undo_stack and redo_stack; the undo
\* and the redo that follow return false, and no sequence of undo and redo
\* calls after the clear brings an entry back.
C9_ClearIsFinal ==
    /\ [](trail.phase = "cleared" =>
             history = <<>> /\ undo_stack = <<>> /\ redo_stack = <<>>)
    /\ [][(trail.phase = "cleared" /\ call'.op \in {"undo", "redo"}) =>
             (~call'.flag /\ history' = <<>>)]_vars

C9_Witness ==
    /\ trail.phase = "cleared"
    /\ call.op \in {"undo", "redo"}
    /\ trail.before # <<>>
    /\ trail.undo_before > 0
    /\ trail.redo_before > 0

\* C10: redo returns true exactly when some undo has not yet been redone
\* and no perform or clear_history changed the state since; after a perform
\* that follows undos redo returns false until the next undo.
C10_RedoOnlyAfterUndo ==
    /\ []((redo_stack # <<>>) <=> (undone > 0))
    /\ [](PerformSucceeded => undone = 0)
    /\ [][call'.op = "redo" => (call'.flag <=> undone > 0)]_vars

C10_Witness ==
    /\ trail.phase = "refused"
    /\ trail.redo_before > 0
    /\ call.op = "redo" /\ ~call.flag
    /\ undo_stack # <<>>

\* C11: undo leaves every entry already on redo_stack in place and pushes
\* at most one on top; redo does the same to undo_stack.
C11_OppositeStackKept ==
    [][/\ call'.op = "undo" =>
             /\ Len(redo_stack') \in {Len(redo_stack), Len(redo_stack) + 1}
             /\ SubSeq(redo_stack', 1, Len(redo_stack)) = redo_stack
       /\ call'.op = "redo" =>
             /\ Len(undo_stack') \in {Len(undo_stack), Len(undo_stack) + 1}
             /\ SubSeq(undo_stack', 1, Len(undo_stack)) = undo_stack]_vars

C11_Witness ==
    /\ call.op = "undo" /\ call.flag
    /\ Len(redo_stack) = 2
    /\ redo_stack[1].history # redo_stack[2].history

(***************************************************************************)
(* Properties of the calls: notification and failures.                     *)
(***************************************************************************)
\* An observer's update raised during the notification of a perform.
ObserverFailed == call.op = "perform" /\ ~call.ok /\ call.notified # <<>>

\* The operands pass validation and the computation raises.
ComputationFails(a, b) ==
    LET validated_a == validate_number(a, config)
        validated_b == validate_number(b, config)
    IN  IF ~validated_a.ok \/ ~validated_b.ok THEN FALSE
        ELSE ~calculate(StrategyName(operation_strategy),
                        validated_a.value, validated_b.value).ok

\* Nothing of the engine changed and no observer was called.
NothingDone ==
    /\ UNCHANGED <<history, undo_stack, redo_stack, history_file, observers>>
    /\ call'.notified = <<>>

\* C12: on a successful perform every registered observer is called once,
\* in registration order, and what an observer sees is the history with
\* the new Calculation appended and the eviction done.
C12_ObserversNotifiedInOrder ==
    PerformSucceeded =>
        /\ call.notified = observers
        /\ trail.phase = "performed" /\ trail.after = history
        /\ (\E i \in 1..Len(observers) : Saves(observers[i])) =>
               history_file = File(HistoryRows(history))

C12_Witness ==
    /\ PerformSucceeded
    /\ Len(observers) = 2 /\ observers[1] # observers[2]
    /\ config.auto_save
    /\ Len(trail.before) = max_size
    /\ history_file = File(HistoryRows(history))

\* C13 as stated: the error of a failing observer leaves perform as the
\* observer's own error, same kind and same message.
C13_ObserverErrorUnchanged ==
    ObserverFailed =>
        \E cause \in SaveFaults :
            /\ call.kind = SaveFailure(cause).kind
            /\ call.message = SaveFailure(cause).message

\* C13 amended: the error of a failing observer leaves perform as an
\* OperationError whose message is "Operation failed: " followed by the
\* observer's message.
C13_ObserverErrorWrapped ==
    ObserverFailed =>
        \E cause \in SaveFaults :
            /\ call.kind = "OperationError"
            /\ call.message =
                   "Operation failed: Failed to save history: " \o cause

C13_Witness ==
    /\ ObserverFailed
    /\ call.notified = <<"LoggingObserver", "AutoSaveObserver">>

\* C14: perform without a selected strategy, and perform whose computation
\* fails, raise an OperationError, change neither history nor the stacks
\* and call no observer.
C14_FailedPerformChangesNothing ==
    [][\A a, b \in BoundaryInputs :
          (/\ call'.op = "perform"
           /\ IF operation_strategy = "None" THEN TRUE
              ELSE ComputationFails(a, b)
           /\ perform_operation(a, b)) =>
             (/\ ~call'.ok
              /\ call'.kind = "OperationError"
              /\ NothingDone)]_vars

C14_Witness ==
    /\ call.op = "perform" /\ ~call.ok
    /\ call.message = "Operation failed: Division by zero is not allowed"
    /\ history # <<>> /\ undo_stack # <<>> /\ redo_stack # <<>>
    /\ observers # <<>>

Registrations(list, observer) ==
    Cardinality({i \in 1..Len(list) : list[i] = observer})

ResultComputed(c) ==
    calculate(c.operation, c.operand1, c.operand2) = Returned(c.result)

AllComputed(h) == \A i \in 1..Len(h) : ResultComputed(h[i])

\* C18: every Calculation of the live history and of every memento, those
\* rebuilt from persisted records included, carries the result its
\* operation computes from its two operands.
C18_ResultsAreComputed ==
    /\ AllComputed(history)
    /\ \A i \in 1..Len(undo_stack) : AllComputed(undo_stack[i].history)
    /\ \A i \in 1..Len(redo_stack) : AllComputed(redo_stack[i].history)

C18_Witness ==
    /\ history_file = File(<<RowAdd, RowDiv>>)
    /\ undo_stack # <<>> /\ redo_stack # <<>>
    /\ Len(redo_stack[1].history) = 2
    /\ redo_stack[1].history[1].operation = "Division"
    /\ redo_stack[1].history[1].result = Dec(0, 0)
    /\ history # <<>>

(***************************************************************************)
(* Claims about a Calculation built on its own.                            *)
(***************************************************************************)
\* __post_init__ has run on the Calculation.
Computed == made.operation \in OperationNames /\ made.outcome # Pending

Built(operation) == Computed /\ made.operation = operation /\ made.outcome.ok

\* The integer n is the exact y-th root of x.
ExactRoot(n, x, y) == n >= 0 /\ IntPow(n, y) = x

\* The value the table gives for (operation, x, y), compared with result r;
\* Division, Percentage, Power and Root are read where that value is an
\* integer.
ClosedForm(operation, x, y, r) ==
    CASE operation = "Addition" -> DecEq(r, DecInt(x + y))
      [] operation = "Subtraction" -> DecEq(r, DecInt(x - y))
      [] operation = "Multiplication" -> DecEq(r, DecInt(x * y))
      [] operation = "Modulus" ->
            /\ IsIntegral(r)
            /\ Abs(IntValue(r)) < Abs(y)
            /\ (x - IntValue(r)) % Abs(y) = 0
      [] operation = "IntegerDivision" -> DecEq(r, DecInt(TruncDiv(x, y)))
      [] operation = "AbsoluteDifference" -> DecEq(r, DecInt(Abs(x - y)))
      [] operation = "Division" ->
            x % Abs(y) = 0 => DecEq(DecMul(r, DecInt(y)), DecInt(x))
      [] operation = "Percentage" ->
            (100 * x) % Abs(y) = 0 => DecEq(DecMul(r, DecInt(y)), DecInt(100 * x))
      [] operation = "Power" -> DecEq(r, DecInt(IntPow(x, y)))
      [] operation = "Root" ->
            \A n \in 0..x : ExactRoot(n, x, y) => DecEq(r, DecInt(n))

\* C19: for every operation of the fixed set and all integer operands
\* outside the failure conditions, the result of Calculation(op, x, y) is
\* the value of the table's formula (for Division, Percentage, Power and
\* Root where that value is an integer).
C19_ResultIsClosedForm ==
    (Computed /\ made.outcome.ok)
        => ClosedForm(made.operation, IntValue(made.operand1),
                      IntValue(made.operand2), made.outcome.value)

\* C20: IntegerDivision(x, y) with y # 0 returns the integer q of the sign
\* of x / y (or zero) with |q| * |y| <= |x| < (|q| + 1) * |y|: the quotient
\* truncated toward zero, for every combination of signs.
C20_IntegerDivisionTruncates ==
    (Computed /\ made.operation = "IntegerDivision"
     /\ ~DecIsZero(made.operand2))
        => LET x == IntValue(made.operand1)
               y == IntValue(made.operand2)
               q == made.outcome.value
           IN  /\ made.outcome.ok
               /\ IsIntegral(q)
               /\ Abs(IntValue(q)) * Abs(y) <= Abs(x)
               /\ Abs(x) < (Abs(IntValue(q)) + 1) * Abs(y)
               /\ (IntValue(q) = 0 \/ Sign(IntValue(q)) = Sign(x) * Sign(y))

C20_Witness ==
    /\ Built("IntegerDivision")
    /\ made.operand1 = DecInt(-10)
    /\ made.operand2 = DecInt(3)
    /\ DecEq(made.outcome.value, DecInt(-3))

\* __post_init__ has run, whatever the operation name.
Run == made # NothingMade /\ made.outcome # Pending

Failed(message) ==
    /\ ~made.outcome.ok
    /\ made.outcome.kind = "OperationError"
    /\ made.outcome.message = message

ZeroDivisorOperations == {"Division", "Modulus", "IntegerDivision", "Percentage"}

DivisionByZeroMessages ==
    {"Division by zero is not allowed",
     "Division by zero is not allowed for percentage"}

\* C21: Division, Modulus, IntegerDivision and Percentage with operand2 = 0
\* fail, for every operand1, with an OperationError whose message names the
\* division by zero; Power with operand2 < 0 fails with an OperationError;
\* no Calculation is produced.
C21_ZeroDivisorAndNegativeExponentFail ==
    /\ (Run /\ made.operation \in ZeroDivisorOperations
         /\ DecIsZero(made.operand2))
            => \E message \in DivisionByZeroMessages : Failed(message)
    /\ (Run /\ made.operation = "Power" /\ DecLt(made.operand2, DecInt(0)))
            => (~made.outcome.ok /\ made.outcome.kind = "OperationError")

C21_Witness ==
    /\ Run
    /\ made.operation = "Modulus"
    /\ made.operand1 = DecInt(-MaxOperand)
    /\ DecIsZero(made.operand2)
    /\ ~made.outcome.ok

\* C22: Percentage with operand2 = 0 fails with "Division by zero is not
\* allowed for percentage", a message Division, Modulus and IntegerDivision
\* do not produce.
C22_PercentageMessageDistinct ==
    /\ (Run /\ made.operation = "Percentage" /\ DecIsZero(made.operand2))
            => Failed("Division by zero is not allowed for percentage")
    /\ (Run /\ made.operation \in ZeroDivisorOperations \ {"Percentage"}
         /\ DecIsZero(made.operand2))
            => ~Failed("Division by zero is not allowed for percentage")

RootMessages ==
    {"Zero root is undefined", "Cannot calculate root of negative number"}

\* What C23 says of the failures of Root: degree zero first, then a
\* negative radicand, with messages apart from each other and from the
\* division by zero.
RootFailures ==
    /\ DecIsZero(made.operand2) => Failed("Zero root is undefined")
    /\ (DecLt(made.operand1, DecInt(0)) /\ ~DecIsZero(made.operand2))
            => Failed("Cannot calculate root of negative number")
    /\ Cardinality(RootMessages \cup DivisionByZeroMessages) = 4

RootDefined ==
    ~DecLt(made.operand1, DecInt(0)) /\ ~DecIsZero(made.operand2)

ArithmeticMessages ==
    RootMessages \cup DivisionByZeroMessages
        \cup {"Negative exponents are not supported", "Invalid root operation",
              "Calculation failed: " \o ZeroToNegativePower}

\* C24: an operation name outside the ten of the table fails with an
\* OperationError "Unknown operation: <name>", which no arithmetic failure
\* produces, whatever the operands are.
C24_UnknownOperationFails ==
    (Run /\ made.operation \notin OperationNames)
        => /\ Failed("Unknown operation: " \o made.operation)
           /\ made.outcome.message \notin ArithmeticMessages

C24_Witness ==
    /\ Run
    /\ made.operation = "addition"
    /\ DecIsZero(made.operand2)
    /\ ~made.outcome.ok

\* The quotient and the remainder the table computes for the operands of
\* the Calculation; the one the Calculation holds is taken from it.
QuotientOf(m) ==
    IF m.operation = "IntegerDivision" THEN m.outcome
    ELSE calculate("IntegerDivision", m.operand1, m.operand2)

RemainderOf(m) ==
    IF m.operation = "Modulus" THEN m.outcome
    ELSE calculate("Modulus", m.operand1, m.operand2)

\* C39: for integers x and y with y # 0, IntegerDivision and Modulus agree:
\* x = IntegerDivision(x, y) * y + Modulus(x, y), |Modulus(x, y)| < |y|, and
\* Modulus(x, y) is zero or has the sign of x.
C39_QuotientAndRemainderAgree ==
    (Computed /\ made.operation \in {"IntegerDivision", "Modulus"}
     /\ ~DecIsZero(made.operand2))
        => LET x == IntValue(made.operand1)
               y == IntValue(made.operand2)
               q == QuotientOf(made)
               r == RemainderOf(made)
           IN  /\ q.ok /\ r.ok
               /\ IsIntegral(q.value) /\ IsIntegral(r.value)
               /\ x = IntValue(q.value) * y + IntValue(r.value)
               /\ Abs(IntValue(r.value)) < Abs(y)
               /\ (IntValue(r.value) = 0 \/ Sign(IntValue(r.value)) = Sign(x))

C39_Witness ==
    /\ Built("Modulus")
    /\ made.operand1 = DecInt(-10)
    /\ made.operand2 = DecInt(3)
    /\ DecEq(made.outcome.value, DecInt(-1))
    /\ DecEq(QuotientOf(made).value, DecInt(-3))

(***************************************************************************)
(* Claims about to_dict and from_dict.                                     *)
(***************************************************************************)
\* from_dict has returned or raised on the dict of a Calculation, or on a
\* record given as it is stored.
RebuiltFromCalculation == record.phase = "rebuilt" /\ record.calc # NoCalculation

RebuiltFromStored == record.phase = "rebuilt" /\ record.calc = NoCalculation

\* C25: for every valid Calculation c, from_dict(to_dict(c)) succeeds and
\* returns a Calculation with the operation, operands, result and
\* timestamp of c.
C25_RoundTrip ==
    RebuiltFromCalculation =>
        /\ record.outcome.ok
        /\ record.outcome.calc = record.calc

C25_Witness ==
    /\ RebuiltFromCalculation
    /\ record.calc.operand1 = Dec(1, 2)
    /\ record.calc.operand2 = Dec(15, -1)
    /\ record.calc.result = Dec(1015, -1)
    /\ record.calc.timestamp = 12
    /\ record.data.operand1 = <<"1", "E", "+", "2">>

\* The record holds the five keys, numbers for operands and result, a
\* timestamp, and operands the operation computes on.
WellFormed(data) ==
    /\ DOMAIN data = Keys
    /\ ParseDecimal(data.operand1).ok /\ ParseDecimal(data.operand2).ok
    /\ ParseDecimal(data.result).ok
    /\ FromIsoFormat(data.timestamp).ok

Recomputed(data) ==
    calculate(data.operation, ParseDecimal(data.operand1).value,
              ParseDecimal(data.operand2).value)

\* C26: from_dict takes the result from the recomputation over the stored
\* operation and operands and never from the stored result: when the two
\* disagree the call still succeeds, returns the recomputed result and
\* logs a warning (and logs none when they agree).
C26_ResultRecomputed ==
    (RebuiltFromStored /\ WellFormed(record.data)
     /\ Recomputed(record.data).ok)
        => /\ record.outcome.ok
           /\ record.outcome.calc.result = Recomputed(record.data).value
           /\ record.outcome.warning =
                  ~DecEq(ParseDecimal(record.data.result).value,
                         Recomputed(record.data).value)

C26_Witness ==
    /\ RebuiltFromStored
    /\ record.data = [operation |-> "Division", operand1 |-> <<"2">>,
                      operand2 |-> <<"2">>, result |-> <<"9">>,
                      timestamp |-> <<"0">>]
    /\ record.outcome.ok
    /\ record.outcome.calc.result = Dec(1, 0)
    /\ record.outcome.warning

\* A key is missing, or an operand or the result is no number.
Malformed(data) ==
    \/ DOMAIN data # Keys
    \/ \E key \in {"operand1", "operand2", "result"} \cap DOMAIN data :
          ~ParseDecimal(data[key]).ok

\* The messages of an OperationError "Invalid calculation data: ...".
InvalidDataMessages(data) ==
    {InvalidData(detail).message :
        detail \in {KeyError(key) : key \in Keys}
                       \cup {ConversionSyntax}
                       \cup {InvalidIsoformat(data[key]) :
                                key \in {"timestamp"} \cap DOMAIN data}}

RaisedInvalidData ==
    /\ ~record.outcome.ok
    /\ record.outcome.kind = "OperationError"
    /\ record.outcome.message \in InvalidDataMessages(record.data)

\* The operation and both operands are there and numeric, and the operation
\* does not compute on them.
ComputationRaises(data) ==
    /\ {"operation", "operand1", "operand2"} \subseteq DOMAIN data
    /\ ParseDecimal(data.operand1).ok /\ ParseDecimal(data.operand2).ok
    /\ ~Recomputed(data).ok

\* C27 as stated: from_dict on a malformed record raises "Invalid
\* calculation data" and returns no Calculation.
C27_MalformedIsInvalidData ==
    (RebuiltFromStored /\ Malformed(record.data)) => RaisedInvalidData

\* C27 amended: from_dict on a malformed record raises an OperationError
\* and returns no Calculation; the error is "Invalid calculation data"
\* unless the operation and the operands are present and numeric and do
\* not compute, in which case it is the error of the computation.
C27_MalformedIsRejected ==
    (RebuiltFromStored /\ Malformed(record.data))
        => IF ComputationRaises(record.data)
           THEN /\ ~record.outcome.ok
                /\ record.outcome.kind = "OperationError"
                /\ record.outcome.message = Recomputed(record.data).message
           ELSE RaisedInvalidData

C27_Witness ==
    /\ RebuiltFromStored
    /\ DOMAIN record.data = Keys \ {"result"}
    /\ record.data.operation = "Division"
    /\ record.data.operand2 = <<"0">>
    /\ record.data.operand1 = <<"2">>
    /\ ~record.outcome.ok
    /\ record.outcome.message = "Division by zero is not allowed"

(***************************************************************************)
(* Claims about the observers.                                             *)
(***************************************************************************)
WasUpdated(observer) == watch.phase = "updated" /\ watch.observer = observer

\* C28: the logging observer and the auto-save observer both raise when
\* update is called with no calculation, and the auto-save observer then
\* calls no save_history and leaves the history file alone.
C28_UpdateWithoutCalculationFails ==
    (watch.phase = "updated" /\ watch.given = NoCalculation)
        => /\ ~watch.outcome.ok
           /\ watch.outcome = CalculationIsNone
           /\ watch.saved = 0
           /\ watch.after = watch.before

C28_Witness ==
    /\ WasUpdated("AutoSaveObserver")
    /\ watch.given = NoCalculation
    /\ config.auto_save /\ watch.at /\ watch.then
    /\ watch.outcome = CalculationIsNone
    /\ watch.saved = 0
    /\ watch.held # <<>>
    /\ watch.after # File(HistoryRows(watch.held))

\* C29: the auto-save observer, updated with a calculation, calls
\* save_history exactly once when config.auto_save is set at the time of
\* the update and never when it is not, whatever the flag was when the
\* observer was built.
C29_SavesOnFlagAtUpdate ==
    (WasUpdated("AutoSaveObserver") /\ watch.given # NoCalculation)
        => /\ watch.saved = (IF watch.at THEN 1 ELSE 0)
           /\ (watch.at /\ watch.outcome.ok)
                  => watch.after = File(HistoryRows(watch.held))
           /\ ~watch.at => watch.after = watch.before

C29_Witness ==
    /\ WasUpdated("AutoSaveObserver")
    /\ watch.given # NoCalculation
    /\ ~watch.then /\ watch.at
    /\ watch.saved = 1
    /\ watch.outcome.ok
    /\ watch.held # <<>>
    /\ watch.before = NoFile
    /\ watch.after = File(HistoryRows(watch.held))

(***************************************************************************)
(* Claims about the configuration.                                         *)
(***************************************************************************)
\* The configuration was built with a max_history_size argument <= 0.
BuiltNonPositive ==
    /\ settings.max_history_size # None
    /\ settings.max_history_size[1] <= 0

\* C30: a configuration built with a max_history_size <= 0, 0 included, is
\* rejected by validate() with a ConfigurationError, and no engine is
\* constructed with a max_history_size <= 0.
C30_NonPositiveHistorySizeRejected ==
    /\ (settings.phase = "validated" /\ BuiltNonPositive)
           => settings.outcome
                  = ConfigurationError("max_history_size must be positive")
    /\ settings.phase = "engine" => config.max_history_size > 0

(***************************************************************************)
(* Claims about the engine across calls.                                   *)
(***************************************************************************)
\* C31: the bound on the history also holds when the history was rebuilt
\* from persisted records: after a successful perform the history has at
\* most max_history_size entries, whatever the file the engine loaded.
C31_LoadedHistoryBounded == PerformSucceeded => Len(history) <= max_size

\* C33: when the update of an observer raises during the notification of a
\* perform, the observers called are exactly those registered up to the
\* failing one, in registration order; no observer registered after it is
\* called.
C33_OnlyEarlierObserversNotified ==
    ObserverFailed =>
        LET n == Len(call.notified)
        IN  /\ n <= Len(observers)
            /\ call.notified = SubSeq(observers, 1, n)
            /\ Saves(observers[n])

C33_Witness ==
    /\ ObserverFailed
    /\ observers = <<"AutoSaveObserver", "LoggingObserver">>
    /\ call.notified = <<"AutoSaveObserver">>
    /\ history_file = NoFile

C32_RaisingPerformChangesNothing ==
    [][(call'.op = "perform" /\ ~call'.ok) => UNCHANGED engine]_vars

\* C34: a successful undo or redo keeps len(undo_stack) + len(redo_stack);
\* a redo right after a successful undo returns true and puts history and
\* the histories held by both stacks back to what they were before the
\* undo, and so does an undo right after a successful redo.
C34_UndoRedoInverse ==
    [][/\ (call'.op \in {"undo", "redo"} /\ call'.flag) =>
              Len(undo_stack') + Len(redo_stack')
                  = Len(undo_stack) + Len(redo_stack)
       /\ (/\ call.flag
           /\ \/ call.op = "undo" /\ call'.op = "redo"
              \/ call.op = "redo" /\ call'.op = "undo") =>
              /\ call'.flag
              /\ history' = past.at.history
              /\ Snapshots(undo_stack') = past.at.undo_stack
              /\ Snapshots(redo_stack') = past.at.redo_stack]_vars

\* An undo undone by a redo, with a memento left on either stack and a
\* history that the undo had changed.
C34_Witness ==
    /\ call.op = "redo" /\ call.flag
    /\ past.prev.op = "undo" /\ past.prev.flag
    /\ Len(undo_stack) = 2
    /\ history # past.at.history

\* C35: after n successful performs in a row from empty stacks, with n
\* above max_history_size or not, the next n undos return true, the k-th
\* leaving the history the (n-k+1)-th perform found, the n-th leaving the
\* history the run started from, and the undo after them returns false.
C35_UndoDepthIsPerformCount ==
    past.run.phase = "undoing" =>
        LET n == Len(past.run.journal)
            k == past.run.undos
        IN  /\ call.op = "undo"
            /\ IF k <= n
               THEN call.flag /\ history = past.run.journal[n - k + 1]
               ELSE ~call.flag
            /\ k >= n => history = past.run.start

C35_Witness ==
    /\ past.run.phase = "undoing"
    /\ Len(past.run.journal) > max_size
    /\ past.run.undos = Len(past.run.journal) + 1
    /\ ~call.flag
    /\ past.run.start # <<>>

\* C36: a new engine has both stacks empty, whatever history it loaded,
\* and undo and redo return false as long as no perform has returned
\* successfully.
C36_NoUndoBeforeFirstPerform ==
    /\ call.op = "__init__" => undo_stack = <<>> /\ redo_stack = <<>>
    /\ (~past.performed /\ call.op \in {"undo", "redo"}) => ~call.flag

\* C37: undo, redo and clear_history call no observer and leave the
\* observer list, the selected strategy and the persisted history alone.
C37_UndoRedoClearNotifyNobody ==
    [][call'.op \in {"undo", "redo", "clear_history"} =>
          /\ call'.notified = <<>>
          /\ UNCHANGED <<observers, operation_strategy, history_file>>]_vars

\* After an undo the file still holds the history the perform had saved,
\* which is no longer the live history.
C37_Witness ==
    /\ call.op = "undo" /\ call.flag
    /\ trail.phase = "undone"
    /\ \E i \in 1..Len(observers) : Saves(observers[i])
    /\ history_file = File(HistoryRows(trail.after))
    /\ history_file # File(HistoryRows(history))

(***************************************************************************)
(* Claims about the list objects.                                          *)
(***************************************************************************)
\* The list a memento names holds what the memento was pushed with.
Kept(refs, stack) ==
    /\ Len(refs) = Len(stack)
    /\ \A i \in 1..Len(stack) : heap.lists[refs[i]] = stack[i].history

\* C16: from its push to its pop, the list a memento on undo_stack or
\* redo_stack holds is the history it was pushed with, whatever perform,
\* undo, redo and clear_history have done to the live list since; no memento
\* names the live list.
C16_SnapshotsKept ==
    /\ Kept(heap.undo, undo_stack)
    /\ Kept(heap.redo, redo_stack)
    /\ heap.live \notin Range(heap.undo) \cup Range(heap.redo)
    /\ heap.lists[heap.live] = history

C16_Witness ==
    /\ PerformEvicted
    /\ Len(undo_stack) = MaxStack
    /\ heap.lists[heap.undo[1]] # heap.lists[heap.live]
    /\ heap.lists[heap.undo[MaxStack]] # heap.lists[heap.live]
    /\ heap.lists[heap.undo[1]] = undo_stack[1].history

=============================================================================
